---- MODULE Spec2Model ----
(***************************************************************************)
(* Model of the LLM relay of gvgai-web (web/lib/llm-client.js, here        *)
(* src/unnamed/part_000 lines 180-560) with its response parser            *)
(* (src/web/lib/prompt-store.js lines 238-278) and its prompt composer     *)
(* (lib/state-converter.js, here src/unnamed/part_001 lines 1-81).         *)
(*                                                                         *)
(* One LLMClient object talks to the GVGAI Java peer over a socket.  Node  *)
(* runs every callback to completion, so each callback is one action:      *)
(*   - a 'data' event dispatching one framed message (processMessage),     *)
(*   - a setImmediate callback queued by an ACT message,                   *)
(*   - the continuation of an awaited fetch (an LLM call finishing),       *)
(*   - socket 'error' / 'close' events, and disconnect() from the server.  *)
(* The functions without state (parseAction, resolveTemplate, buildPrompt, *)
(* sendMessageWithId, the phase detection of processMessage) and one run   *)
(* of startAsyncLLMCall with its request are also applied on their own,    *)
(* each under a specification of its own.  SpecThrowing adds the FINISH    *)
(* branch with a callee that throws; SpecLevels follows ACT and END        *)
(* messages alone through a session one message longer.                    *)
(*                                                                         *)
(* The host of the relay is modelled beside it: the game server with its   *)
(* start and stop requests and the process manager (SpecServer), one call  *)
(* of GameManager.waitForReady (SpecReady), and the prompt store with its  *)
(* cache (SpecStore).                                                      *)
(***************************************************************************)
EXTENDS Integers, Sequences, FiniteSets, TLC

(***************************************************************************)
(* Bounds of the model.                                                    *)
(***************************************************************************)
MaxMsgs == 3        \* messages the peer sends in one session
MaxTicks == 2       \* clock advances of TickStep that are followed
MaxData == 5        \* characters one 'data' event works on (buffer and chunk)
MaxChunk == 2       \* characters of one chunk
MaxWords == 2       \* words of an LLM answer given to parseAction on its own
MaxTokens == 2      \* pieces (texts and placeholders) of a template
MaxPieces == 3      \* pieces (texts and phase markers) of a payload
MaxStarts == 2      \* start requests the server receives
MaxPolls == 2       \* ticks of the ready interval that fit into a timeout

(***************************************************************************)
(* Program constants.                                                      *)
(***************************************************************************)
MinInterval == 400  \* ms, processMessage: (now - lastLLMCallTime) >= 400
HeadLength == 2000  \* characters, processMessage: jsonPayload.substring(0, 2000)

\* The clock (Date.now(), epoch milliseconds) is far above MinInterval when a
\* session starts, so now - 0 >= MinInterval holds from the first tick on.
Epoch == 3 * MinInterval
\* The clock is followed in steps of half the minimum interval.
TickStep == MinInterval \div 2
MaxTime == Epoch + MaxTicks * TickStep
\* what Date.now() can return after it returned t: the clock never runs back
ClockReadings(t) ==
  { u \in { t + k * TickStep : k \in 0..MaxTicks } : u <= MaxTime }

Null == "null"

\* response-parser: VALID_ACTIONS, in the order of the array.
VALID_ACTIONS ==
  << "ACTION_NIL", "ACTION_UP", "ACTION_DOWN", "ACTION_LEFT",
     "ACTION_RIGHT", "ACTION_USE", "ACTION_ESCAPE" >>

SeqToSet(s) == { s[i] : i \in 1..Len(s) }

RECURSIVE seqsUpTo(_, _)
\* the sequences over S of length 0..n
seqsUpTo(S, n) ==
  IF n = 0 THEN { << >> }
  ELSE LET shorter == seqsUpTo(S, n - 1)
       IN shorter \cup { << c >> \o t : c \in S, t \in { u \in shorter : Len(u) = n - 1 } }

(***************************************************************************)
(* Text of an LLM answer: a sequence of words.  toUpperCase() works word   *)
(* by word; String.includes(action) holds when some word of the upper-     *)
(* cased text contains the action as a substring.                          *)
(***************************************************************************)
toUpperCase(w) ==
  CASE w = "action_left" -> "ACTION_LEFT"
    [] w = "hmm"         -> "HMM"
    [] w = "go"          -> "GO"
    [] OTHER             -> w

\* the vocabulary tokens that occur as a substring of an upper-case word
SubstringsOf(W) ==
  CASE W = "ACTION_UP"     -> { "ACTION_UP" }
    [] W = "ACTION_LEFT"   -> { "ACTION_LEFT" }
    [] W = "ACTION_UPWARD" -> { "ACTION_UP" }
    [] OTHER               -> {}

\* text.includes(action), text already upper-cased
includes(text, action) ==
  \E i \in 1..Len(text) : action \in SubstringsOf(text[i])

\* the upper-case words that the pattern ACTION_\w+ matches
ActionWords == { "ACTION_UP", "ACTION_LEFT", "ACTION_UPWARD", "ACTION_JUMP" }

\* text.match(/ACTION:\s*(ACTION_\w+)/): the capture group, or Null.
\* \w+ is greedy, so the capture is the whole word that follows "ACTION:".
RegexMatch(text) ==
  LET hits == { i \in 1..(Len(text) - 1) :
                  /\ text[i] = "ACTION:"
                  /\ text[i + 1] \in ActionWords }
  IN IF hits = {} THEN Null
     ELSE text[CHOOSE i \in hits : \A j \in hits : i <= j]

\* (mutant) the answer is searched as it is, without toUpperCase()
parseActionCaseSensitive(response, actions) ==
  IF Len(response) = 0 THEN "ACTION_NIL"
  ELSE
    LET found == { k \in 1..Len(actions) : includes(response, actions[k]) }
        match == RegexMatch(response)
    IN IF found # {}
         THEN actions[CHOOSE k \in found : \A j \in found : k <= j]
       ELSE IF match # Null /\ match \in SeqToSet(actions)
         THEN match
       ELSE "ACTION_NIL"

\* (mutant) the captured token is returned without looking it up
parseActionUnvalidated(response, actions) ==
  IF Len(response) = 0 THEN "ACTION_NIL"
  ELSE
    LET text == [i \in 1..Len(response) |-> toUpperCase(response[i])]
        found == { k \in 1..Len(actions) : includes(text, actions[k]) }
        match == RegexMatch(text)
    IN IF found # {}
         THEN actions[CHOOSE k \in found : \A j \in found : k <= j]
       ELSE IF match # Null
         THEN match
       ELSE "ACTION_NIL"

parseAction(llmResponse, availableActions) ==
  IF Len(llmResponse) = 0 THEN "ACTION_NIL"
  ELSE
    LET text == [i \in 1..Len(llmResponse) |-> toUpperCase(llmResponse[i])]
        found == { k \in 1..Len(availableActions) :
                     includes(text, availableActions[k]) }
        match == RegexMatch(text)
    IN IF found # {}
         THEN availableActions[CHOOSE k \in found : \A j \in found : k <= j]
       ELSE IF match # Null /\ match \in SeqToSet(availableActions)
         THEN match
       ELSE "ACTION_NIL"

(***************************************************************************)
(* Messages of the peer.  A payload is a control token (START, FINISH) or  *)
(* a structured text of which the model keeps what processMessage reads:   *)
(* the phase markers in its first 2000 characters (head), the phase        *)
(* markers anywhere in it (full), and whether JSON.parse accepts it.       *)
(***************************************************************************)
Phases == { "ACT", "INIT", "END" }

Structured(head, full, json) ==
  [ctl |-> "", head |-> head, full |-> full, json |-> json]

Payloads ==
  { [ctl |-> "START", head |-> {}, full |-> {}, json |-> FALSE],
    [ctl |-> "FINISH", head |-> {}, full |-> {}, json |-> FALSE],
    Structured({"ACT"}, {"ACT"}, TRUE),
    Structured({"ACT"}, {"ACT"}, FALSE),
    Structured({"INIT"}, {"INIT"}, TRUE),
    Structured({"INIT"}, {"INIT"}, FALSE),
    Structured({"END"}, {"END"}, TRUE),
    Structured({"END"}, {"END"}, FALSE),
    Structured({}, {"END"}, TRUE),
    Structured({}, {}, TRUE) }

\* What the backend call can end with: fetch rejects, the status is not ok,
\* the body is not JSON, the body has no choices array, or the body yields a
\* content text (empty when the first choice carries no message content).
Failures == { "network_error", "bad_status", "bad_body", "no_choices" }

Responses ==
  { << >>, << "hmm" >>, << "ACTION_UP" >>, << "go", "action_left" >>,
    << "ACTION:", "ACTION_UPWARD" >>, << "ACTION:", "ACTION_JUMP" >> }

Outcomes ==
  { [kind |-> f, text |-> << >>] : f \in Failures }
    \cup { [kind |-> "ok", text |-> t] : t \in Responses }

\* values of the history variables before anything happened
NoLevel == 0 - 1
NoCall ==
  [id |-> 0, level |-> 0, active |-> FALSE, endedIn |-> NoLevel, ok |-> FALSE,
   action |-> Null]
NoMsg == [id |-> 0, phase |-> "none", json |-> FALSE]
NoSend == [n |-> 0, id |-> 0, msg |-> << >>, socket |-> "none"]
Unapplied == "unapplied"
NoLayer == [absent |-> TRUE, tokens |-> << >>]
NoRequest == [apiUrl |-> Null, Authorization |-> Null]
NoInvocation ==
  [stage |-> "idle", model |-> << >>, apiKey |-> Null,
   jsonPayload |-> [gameTick |-> 0], pendingBefore |-> Null,
   pendingLLMAction |-> Null, llmCallInProgress |-> FALSE,
   request |-> NoRequest, outcome |-> "none", emitted |-> << >>]

VARIABLES
  socket,            \* "none" (constructed), "open", "errored", "closed", "null"
  gameActive,        \* this.gameActive
  onSessionEnd,      \* TRUE while this.onSessionEnd holds the server's callback
  pendingLLMAction,  \* this.pendingLLMAction (Null or an action)
  llmCallInProgress, \* this.llmCallInProgress
  lastLLMCallTime,   \* this.lastLLMCallTime
  levelCount,        \* this.levelCount
  promptLevel,       \* the level this.promptConfig was resolved for
  now,               \* what Date.now() returned last
  nextId,            \* the peer's next message id
  out,               \* frames written to the socket, in order
  immediates,        \* setImmediate callbacks queued by ACT messages
  draining,          \* the event loop is in its check phase
  closing,           \* disconnect() destroyed the socket, 'close' is to come
  emitted,           \* the 'session-end' events given to io.emit, in order
  inflight,          \* LLM calls awaiting fetch: the ACT message each was
                     \* launched for, the level and gameActive then
  \* history variables, read by the properties only
  starts,            \* the LLM calls that reached the backend: time and level
  done,              \* the LLM call that finished last: the message that
                     \* launched it, the level it started and ended in,
                     \* whether it succeeded, the action parsed from its answer
  lastMsg,           \* the message dispatched last
  sessionEndCalls,   \* how often the server's session-end callback ran
  sessionEnding,     \* a FINISH message, an 'error' or a 'close' event occurred
  acts,              \* the ids of the ACT messages dispatched, in order
  endedHere,         \* a call started in the current level has ended
  \* the channel: handleData and the head of processMessage
  buffer,            \* this.buffer: the characters after the last newline
  dispatched,        \* the messages the last 'data' event handed on: the line
                     \* each came from, its msgId and its jsonPayload
  lines,             \* history: the lines the last 'data' event completed
  tail,              \* history: the stream after its last newline
  stream,            \* history: the bytes received so far
  delivered,         \* history: msgId and jsonPayload of every message
                     \* handed on so far, in order
  \* functions applied on their own
  parserText,        \* parseAction: the answer text, a sequence of words
  parserActions,     \* parseAction: the legal actions, in the caller's order
  parserResult,      \* parseAction: the result (Null before the call)
  sso,               \* the snapshot given to resolveTemplate / buildPrompt
  templateContent,   \* resolveTemplate: the template
  extraVars,         \* resolveTemplate: the extra variables
  resolved,          \* resolveTemplate: the result (Unapplied before the call)
  promptConfig,      \* buildPrompt: the resolved configuration
  prompt,            \* buildPrompt: the result
  lastSend,          \* history: the last sendMessageWithId call made on its
                     \* own: its number, its arguments, the socket then
  classified,        \* phase detection on its own: the payload text and
                     \* the phase found (Unapplied before)
  invocation,        \* startAsyncLLMCall on its own: the object's fields it
                     \* reads and writes, its payload, the request it
                     \* makes, what its fetch ended with, what it emitted
  faults,            \* history: how many exceptions were thrown inside the
                     \* try block of processMessage, and how many of the
                     \* promises processMessage returned were rejected
  sessionLength,     \* the number of messages the peer sends in the session
  \* the game server (POST /api/game/start, /api/game/stop) and GameManager
  pc,                \* where each start request is: idle, at one of its two
                     \* awaits, or answered
  activeGames,       \* the keys of the server's activeGames map
  activeProcesses,   \* the keys of GameManager.activeProcesses
  javaProcess,       \* the simulation process each request spawned
  screenshotWatcher, \* screenshotWatcher is set: streaming is on
  llmClient,         \* the socket of the relay client each request made
  sessionEndOf,      \* llmClient.onSessionEnd of that client is installed
  res,               \* the status each request was answered with (0: not yet)
  waiting,           \* waitForReady on its own: what the process wrote,
                     \* whether it closed, the ticks so far, the result
  \* the prompt store
  templateFiles,     \* data/templates/<id>.json: the content, or Null
  templateIndex,     \* the ids listed in data/templates/_index.json
  gameFiles,         \* data/games/<gameId>.json: the configuration
  cache,             \* _cache: the entries of its two maps
  removed,           \* history: the templates deleteTemplate removed and
                     \* nobody saved again
  storeResult,       \* history: the store operation made last, its result
  resolution         \* history: the last resolveGamePromptConfig call, its
                     \* result, the store operation right before it

relayVars ==
  << socket, gameActive, onSessionEnd, pendingLLMAction, llmCallInProgress,
     lastLLMCallTime, levelCount, promptLevel, now, nextId, out, immediates,
     draining, inflight, starts, done, lastMsg, sessionEndCalls, endedHere,
     closing, emitted, sessionEnding, acts >>

chanVars == << buffer, dispatched, lines, tail, stream, delivered >>

\* arguments and results of the functions that are applied on their own
parserVars == << parserText, parserActions, parserResult >>

composerVars ==
  << sso, templateContent, extraVars, resolved, promptConfig, prompt >>

fnVars == << parserVars, composerVars, lastSend, invocation, classified >>

\* exceptions inside processMessage
faultVars == << faults >>

\* the peer
peerVars == << sessionLength >>

\* the game server and its process manager
serverVars ==
  << pc, activeGames, activeProcesses, javaProcess, screenshotWatcher,
     llmClient, sessionEndOf, res >>

\* the host of the relay
\* the prompt store
storeVars ==
  << templateFiles, templateIndex, gameFiles, cache, removed, storeResult,
     resolution >>

hostVars == << serverVars, waiting, storeVars >>

vars == << relayVars, chanVars, fnVars, faultVars, peerVars, hostVars >>

\* new LLMClient()
Constructed ==
  /\ socket = "none"
  /\ gameActive = FALSE
  /\ onSessionEnd = FALSE
  /\ pendingLLMAction = Null
  /\ llmCallInProgress = FALSE
  /\ lastLLMCallTime = 0
  /\ levelCount = 0
  /\ promptLevel = NoLevel
  /\ now = Epoch
  /\ nextId = 1
  /\ out = << >>
  /\ immediates = << >>
  /\ draining = FALSE
  /\ inflight = {}
  /\ starts = << >>
  /\ done = NoCall
  /\ lastMsg = NoMsg
  /\ sessionEndCalls = 0
  /\ endedHere = FALSE
  /\ closing = FALSE
  /\ emitted = << >>
  /\ sessionEnding = FALSE
  /\ acts = << >>
  /\ lastSend = NoSend
  /\ invocation = NoInvocation
  /\ classified = [jsonPayload |-> << >>, phase |-> Unapplied]
  /\ faults = [thrown |-> 0, rejected |-> 0]
  /\ parserText = << >>
  /\ parserActions = << >>
  /\ parserResult = Null
  /\ sso = [gameTick |-> 0]
  /\ templateContent = NoLayer
  /\ extraVars = [gameName |-> ""]
  /\ resolved = Unapplied
  /\ promptConfig = [gameName |-> "", systemContent |-> NoLayer,
                     gameContent |-> NoLayer, levelContent |-> NoLayer]
  /\ prompt = [systemMessage |-> Null, userMessage |-> Unapplied]
  /\ buffer = << >>
  /\ dispatched = << >>
  /\ lines = << >>
  /\ tail = << >>
  /\ stream = << >>
  /\ delivered = << >>

\* the prompt store: its template ids, contents, games and levels
TemplateIds == { "default-system", "t1" }
Contents == { "", "A", "B" }
GameIds == { 0 }
Levels == { 0, 1 }

\* defaultPromptConfig: the content used when no default-system template is
\* stored
DefaultSystemContent ==
  "You are playing a 2D game. Respond with ONE action name."

\* a game configuration file that does not exist (or does not parse)
NoConfig == [absent |-> TRUE]

\* a layer context that the configuration does not have
NoContext == [present |-> FALSE, templateId |-> Null, customOverride |-> Null]

\* gameContext and progressionContexts[level]: a template reference, a
\* custom override, both or neither
Contexts ==
  { NoContext,
    [present |-> TRUE, templateId |-> Null, customOverride |-> Null],
    [present |-> TRUE, templateId |-> "t1", customOverride |-> Null],
    [present |-> TRUE, templateId |-> "t1", customOverride |-> ""],
    [present |-> TRUE, templateId |-> "t1", customOverride |-> "custom"],
    [present |-> TRUE, templateId |-> Null, customOverride |-> "custom"] }

\* the game configurations that are saved: level 0 may have a progression
\* context, level 1 has none
GameConfigs ==
  { [systemTemplateId |-> s, gameContext |-> g,
     progressionContexts |-> [l \in Levels |-> IF l = 0 THEN p ELSE NoContext]] :
      s \in { Null, "t1" }, g \in Contexts, p \in Contexts }

EmptyCache ==
  [templates |-> [id \in TemplateIds |-> << >>],
   gameConfigs |-> [g \in GameIds |-> << >>]]

NoResult == [op |-> "none", template |-> Null, result |-> "none"]

NoResolution ==
  [gameId |-> 0, levelId |-> 0,
   config |-> [systemContent |-> Null, gameContent |-> Null,
               levelContent |-> Null],
   after |-> "unresolved"]

\* the store when the server starts: no file, nothing cached
StoreLoaded ==
  /\ templateFiles = [id \in TemplateIds |-> Null]
  /\ templateIndex = {}
  /\ gameFiles = [g \in GameIds |-> NoConfig]
  /\ cache = EmptyCache
  /\ removed = {}
  /\ storeResult = NoResult
  /\ resolution = NoResolution

\* the start requests; request r spawns the process game_<Date.now()>, which
\* is known by the number of the request
Requests == 1..MaxStarts

\* the server after its module was loaded: no game, no process, no watcher
ServerLoaded ==
  /\ pc = [r \in Requests |-> "idle"]
  /\ activeGames = {}
  /\ activeProcesses = {}
  /\ javaProcess = [r \in Requests |-> "none"]
  /\ screenshotWatcher = FALSE
  /\ llmClient = [r \in Requests |-> "none"]
  /\ sessionEndOf = [r \in Requests |-> FALSE]
  /\ res = [r \in Requests |-> 0]
  /\ waiting = [stage |-> "uncalled", known |-> FALSE, stdoutMarker |-> FALSE,
                stdoutBind |-> FALSE, stderrBind |-> FALSE, closed |-> FALSE,
                polls |-> 0, timeoutTicks |-> 0, result |-> "pending"]

\* a new client and a peer that is about to send MaxMsgs messages
Init ==
  /\ Constructed
  /\ ServerLoaded
  /\ StoreLoaded
  /\ sessionLength = MaxMsgs

\* a new client and a peer that is about to send one message more
InitLonger ==
  /\ Constructed
  /\ ServerLoaded
  /\ StoreLoaded
  /\ sessionLength = MaxMsgs + 1

(***************************************************************************)
(* Helpers of processMessage.                                              *)
(***************************************************************************)

\* (mutant) the frame is written whatever the socket is
sendMessageWithIdUnchecked(sock, written, msgId, msg) ==
  Append(written, [id |-> msgId, msg |-> msg])

\* (mutant) the frame overtakes the frames written before
sendMessageWithIdOvertaking(sock, written, msgId, msg) ==
  IF sock = "open" THEN << [id |-> msgId, msg |-> msg] >> \o written
  ELSE written

\* sendMessageWithId: the frame <msgId>#<msg>\n is written when the socket
\* exists and is not destroyed, and nothing is written otherwise.  msg is
\* kept as the sequence of its '#'-separated segments.
sendMessageWithId(sock, written, msgId, msg) ==
  IF sock = "open" THEN Append(written, [id |-> msgId, msg |-> msg])
  ELSE written

\* (mutant) the markers are looked for in the whole payload at once
ClassifyWholePayload(payload) ==
  LET found == payload.full
  IN CASE payload.ctl # "" -> payload.ctl
       [] "ACT" \in found  -> "ACT"
       [] "INIT" \in found -> "INIT"
       [] "END" \in found  -> "END"
       [] OTHER            -> "NONE"

\* Phase detection: the head first, the full payload when the head holds no
\* marker; then the if / else-if chain ACT, INIT, END.
Classify(payload) ==
  LET found == IF payload.head # {} THEN payload.head ELSE payload.full
  IN CASE payload.ctl # "" -> payload.ctl
       [] "ACT" \in found  -> "ACT"
       [] "INIT" \in found -> "INIT"
       [] "END" \in found  -> "END"
       [] OTHER            -> "NONE"

\* (mutant) the cached value is sent as it is, also when nothing is cached
actionToSendRaw(pending) == pending

\* (mutant) the fallback is sent whatever is cached
actionToSendNil(pending) == "ACTION_NIL"

\* const actionToSend = this.pendingLLMAction || 'ACTION_NIL'
actionToSend(pending) ==
  IF pending = Null THEN "ACTION_NIL" ELSE pending

\* (mutant) admission by the in-progress flag alone
mayStartLLMCallUntimed(inProgress, t, last) == ~inProgress

\* !this.llmCallInProgress && (now - this.lastLLMCallTime) >= 400
mayStartLLMCall(inProgress, t, last) ==
  ~inProgress /\ (t - last) >= MinInterval

\* (mutant) a failed call clears the cache
cacheAfterCallClearing(pending, outcome) ==
  IF outcome.kind = "ok" THEN parseAction(outcome.text, VALID_ACTIONS)
  ELSE Null

\* (mutant) the parsed action is not stored
cacheAfterCallDropped(pending, outcome) == pending

\* The cache after an LLM call ended with `outcome`: a content text is
\* parsed (against VALID_ACTIONS, the parser's default) and stored; every
\* failure throws before the assignment.
cacheAfterCall(pending, outcome) ==
  IF outcome.kind = "ok" THEN parseAction(outcome.text, VALID_ACTIONS)
  ELSE pending

\* What startAsyncLLMCall gives to io.emit when its fetch ended with
\* `outcome`: 'llm-error' in the branch of a status that is not ok,
\* 'llm-reasoning' after the action was stored, and nothing on the way
\* through catch, which only logs.
emittedBy(outcome) ==
  CASE outcome.kind = "ok"         -> "llm-reasoning"
    [] outcome.kind = "bad_status" -> "llm-error"
    [] OTHER                       -> "none"

\* (mutant) the callback is called and kept
TriggerSessionEndUnguarded ==
  IF onSessionEnd
    THEN /\ sessionEndCalls' = sessionEndCalls + 1
         /\ UNCHANGED onSessionEnd
    ELSE UNCHANGED << onSessionEnd, sessionEndCalls >>

\* _triggerSessionEnd: the callback is cleared, then called.
TriggerSessionEnd ==
  IF onSessionEnd
    THEN /\ onSessionEnd' = FALSE
         /\ sessionEndCalls' = sessionEndCalls + 1
    ELSE UNCHANGED << onSessionEnd, sessionEndCalls >>

(***************************************************************************)
(* Actions.                                                                *)
(***************************************************************************)

\* server: llmClient.onSessionEnd = ...; llmClient.connect(...) succeeding
Connect ==
  /\ socket = "none"
  /\ socket' = "open"
  /\ gameActive' = TRUE
  /\ onSessionEnd' = TRUE
  /\ promptLevel' = 0
  /\ UNCHANGED << pendingLLMAction, llmCallInProgress, lastLLMCallTime,
                  levelCount, now, nextId, out, immediates, draining,
                  inflight, starts, done, lastMsg, sessionEndCalls,
                  endedHere, closing, sessionEnding, acts, emitted,
                  chanVars, fnVars, faultVars, peerVars, hostVars >>

\* the part of every dispatch that does not depend on the phase
Dispatched(payload) ==
  /\ socket = "open"
  /\ ~draining
  /\ nextId <= sessionLength
  /\ nextId' = nextId + 1
  /\ lastMsg' = [id |-> nextId, phase |-> Classify(payload), json |-> payload.json]

\* (mutant) START begins a level afresh, as handleEnd leaves it
HandleStartResetting(payload) ==
  /\ Dispatched(payload)
  /\ Classify(payload) = "START"
  /\ out' = sendMessageWithId(socket, out, nextId, << "START_DONE" >>)
  /\ pendingLLMAction' = Null
  /\ llmCallInProgress' = FALSE
  /\ lastLLMCallTime' = 0
  /\ UNCHANGED << socket, gameActive, onSessionEnd, levelCount, promptLevel,
                  now, immediates, draining, inflight, starts, done,
                  sessionEndCalls,
                  endedHere, closing, sessionEnding, acts, emitted,
                  chanVars, fnVars, faultVars, peerVars, hostVars >>

\* <id>#START
HandleStart(payload) ==
  /\ Dispatched(payload)
  /\ Classify(payload) = "START"
  /\ out' = sendMessageWithId(socket, out, nextId, << "START_DONE" >>)
  /\ UNCHANGED << socket, gameActive, onSessionEnd, pendingLLMAction,
                  llmCallInProgress, lastLLMCallTime, levelCount, promptLevel,
                  now, immediates, draining, inflight, starts, done,
                  sessionEndCalls,
                  endedHere, closing, sessionEnding, acts, emitted,
                  chanVars, fnVars, faultVars, peerVars, hostVars >>

\* (mutant) FINISH is acknowledged like START
HandleFinishReplying(payload) ==
  /\ Dispatched(payload)
  /\ Classify(payload) = "FINISH"
  /\ gameActive' = FALSE
  /\ TriggerSessionEnd
  /\ out' = sendMessageWithId(socket, out, nextId, << "FINISH_DONE" >>)
  /\ emitted' = Append(emitted, [event |-> "session-end",
                                  levelsPlayed |-> levelCount])
  /\ sessionEnding' = TRUE
  /\ UNCHANGED << socket, pendingLLMAction, llmCallInProgress, lastLLMCallTime,
                  levelCount, promptLevel, now, immediates, draining,
                  inflight, starts, done, endedHere, closing, acts,
                  chanVars, fnVars, faultVars, peerVars, hostVars >>

\* <id>#FINISH
HandleFinish(payload) ==
  /\ Dispatched(payload)
  /\ Classify(payload) = "FINISH"
  /\ gameActive' = FALSE
  /\ TriggerSessionEnd
  /\ emitted' = Append(emitted, [event |-> "session-end",
                                  levelsPlayed |-> levelCount])
  /\ sessionEnding' = TRUE
  /\ UNCHANGED << socket, pendingLLMAction, llmCallInProgress, lastLLMCallTime,
                  levelCount, promptLevel, now, out, immediates, draining,
                  inflight, starts, done,
                  endedHere, closing, acts,
                  chanVars, fnVars, faultVars, peerVars, hostVars >>

\* what the catch block of processMessage does with a caught exception.
\* msgId is a const of the try block and is not in scope in the catch
\* block: evaluating `if (msgId)` throws a ReferenceError, nothing is
\* written and the promise that processMessage returned is rejected;
\* handleData neither awaits nor catches it.
CatchBlock(id) ==
  /\ faults' = [thrown |-> faults.thrown + 1, rejected |-> faults.rejected + 1]
  /\ out' = out

\* <id>#FINISH when a call of the FINISH branch throws: io.emit, or the
\* server's session-end callback, which runs after it was uninstalled
HandleFinishThrowing(payload) ==
  /\ Dispatched(payload)
  /\ Classify(payload) = "FINISH"
  /\ gameActive' = FALSE
  /\ sessionEnding' = TRUE
  /\ \E thrower \in { "io.emit", "onSessionEnd" } :
       IF thrower = "io.emit"
         THEN UNCHANGED << emitted, onSessionEnd, sessionEndCalls >>
       ELSE /\ emitted' = Append(emitted, [event |-> "session-end",
                                            levelsPlayed |-> levelCount])
            /\ onSessionEnd
            /\ TriggerSessionEnd
  /\ CatchBlock(nextId)
  /\ UNCHANGED << socket, pendingLLMAction, llmCallInProgress, lastLLMCallTime,
                  levelCount, promptLevel, now, immediates, draining,
                  inflight, starts, done, endedHere, closing, acts,
                  chanVars, fnVars, peerVars, hostVars >>

\* (mutant) the reply is left to the deferred callback
HandleActDeferredReply(payload) ==
  /\ Dispatched(payload)
  /\ Classify(payload) = "ACT"
  /\ immediates' = Append(immediates, [id |-> nextId, json |-> payload.json])
  /\ acts' = Append(acts, nextId)
  /\ UNCHANGED << socket, gameActive, onSessionEnd, pendingLLMAction,
                  llmCallInProgress, lastLLMCallTime, levelCount, promptLevel,
                  now, out, draining, inflight, starts, done, sessionEndCalls,
                  endedHere, closing, sessionEnding, emitted,
                  chanVars, fnVars, faultVars, peerVars, hostVars >>

\* phase ACT: the reply is written, then the rest is handed to setImmediate
HandleAct(payload) ==
  /\ Dispatched(payload)
  /\ Classify(payload) = "ACT"
  /\ out' = sendMessageWithId(socket, out, nextId,
                              << actionToSend(pendingLLMAction), "IMAGE" >>)
  /\ immediates' = Append(immediates, [id |-> nextId, json |-> payload.json])
  /\ acts' = Append(acts, nextId)
  /\ UNCHANGED << socket, gameActive, onSessionEnd, pendingLLMAction,
                  llmCallInProgress, lastLLMCallTime, levelCount, promptLevel,
                  now, draining, inflight, starts, done, sessionEndCalls,
                  endedHere, closing, sessionEnding, emitted,
                  chanVars, fnVars, faultVars, peerVars, hostVars >>

\* (mutant) a payload that JSON.parse rejects is answered like a good one
HandleInitIgnoringParseError(payload) ==
  /\ Dispatched(payload)
  /\ Classify(payload) = "INIT"
  /\ promptLevel' = levelCount
  /\ out' = sendMessageWithId(socket, out, nextId, << "INIT_DONE", "BOTH" >>)
  /\ UNCHANGED << socket, gameActive, onSessionEnd, pendingLLMAction,
                  llmCallInProgress, lastLLMCallTime, levelCount, now,
                  immediates, draining, inflight, starts, done,
                  sessionEndCalls, endedHere, closing, sessionEnding, acts,
                  emitted, chanVars, fnVars, faultVars, peerVars, hostVars >>

\* (mutant) the configuration is resolved for the first level, as in connect
HandleInitFirstLevel(payload) ==
  /\ Dispatched(payload)
  /\ Classify(payload) = "INIT"
  /\ IF payload.json
       THEN /\ promptLevel' = 0
            /\ out' = sendMessageWithId(socket, out, nextId,
                                        << "INIT_DONE", "BOTH" >>)
       ELSE /\ promptLevel' = promptLevel
            /\ out' = sendMessageWithId(socket, out, nextId, << "INIT_FAILED" >>)
  /\ UNCHANGED << socket, gameActive, onSessionEnd, pendingLLMAction,
                  llmCallInProgress, lastLLMCallTime, levelCount, now,
                  immediates, draining, inflight, starts, done,
                  sessionEndCalls,
                  endedHere, closing, sessionEnding, acts, emitted,
                  chanVars, fnVars, faultVars, peerVars, hostVars >>

\* phase INIT: handleInit, or INIT_FAILED when JSON.parse throws
HandleInit(payload) ==
  /\ Dispatched(payload)
  /\ Classify(payload) = "INIT"
  /\ IF payload.json
       THEN /\ promptLevel' = levelCount
            /\ out' = sendMessageWithId(socket, out, nextId,
                                        << "INIT_DONE", "BOTH" >>)
       ELSE /\ promptLevel' = promptLevel
            /\ out' = sendMessageWithId(socket, out, nextId, << "INIT_FAILED" >>)
  /\ UNCHANGED << socket, gameActive, onSessionEnd, pendingLLMAction,
                  llmCallInProgress, lastLLMCallTime, levelCount, now,
                  immediates, draining, inflight, starts, done,
                  sessionEndCalls,
                  endedHere, closing, sessionEnding, acts, emitted,
                  chanVars, fnVars, faultVars, peerVars, hostVars >>

\* (mutant) the level state is reset before the payload is parsed
HandleEndResetFirst(payload) ==
  /\ Dispatched(payload)
  /\ Classify(payload) = "END"
  /\ pendingLLMAction' = Null
  /\ llmCallInProgress' = FALSE
  /\ lastLLMCallTime' = 0
  /\ IF payload.json
       THEN /\ levelCount' = levelCount + 1
            /\ endedHere' = FALSE
            /\ out' = sendMessageWithId(socket, out, nextId, << "END_DONE" >>)
       ELSE /\ UNCHANGED << levelCount, endedHere >>
            /\ out' = sendMessageWithId(socket, out, nextId, << "END_FAILED" >>)
  /\ UNCHANGED << socket, gameActive, onSessionEnd, promptLevel, now,
                  immediates, draining, inflight, starts, done,
                  sessionEndCalls,
                  closing, sessionEnding, acts, emitted,
                  chanVars, fnVars, faultVars, peerVars, hostVars >>

\* phase END: handleEnd, or END_FAILED when JSON.parse throws
HandleEnd(payload) ==
  /\ Dispatched(payload)
  /\ Classify(payload) = "END"
  /\ IF payload.json
       THEN /\ levelCount' = levelCount + 1
            /\ pendingLLMAction' = Null
            /\ llmCallInProgress' = FALSE
            /\ lastLLMCallTime' = 0
            /\ endedHere' = FALSE
            /\ out' = sendMessageWithId(socket, out, nextId, << "END_DONE" >>)
       ELSE /\ UNCHANGED << levelCount, pendingLLMAction, llmCallInProgress,
                            lastLLMCallTime, endedHere >>
            /\ out' = sendMessageWithId(socket, out, nextId, << "END_FAILED" >>)
  /\ UNCHANGED << socket, gameActive, onSessionEnd, promptLevel, now,
                  immediates, draining, inflight, starts, done,
                  sessionEndCalls,
                  closing, sessionEnding, acts, emitted,
                  chanVars, fnVars, faultVars, peerVars, hostVars >>

\* no phase marker in the payload: a warning is logged
HandleNoPhase(payload) ==
  /\ Dispatched(payload)
  /\ Classify(payload) = "NONE"
  /\ UNCHANGED << socket, gameActive, onSessionEnd, pendingLLMAction,
                  llmCallInProgress, lastLLMCallTime, levelCount, promptLevel,
                  now, out, immediates, draining, inflight, starts, done,
                  sessionEndCalls,
                  endedHere, closing, sessionEnding, acts, emitted,
                  chanVars, fnVars, faultVars, peerVars, hostVars >>

\* processMessage on one complete frame
ProcessMessage ==
  \E payload \in Payloads :
    \/ HandleStart(payload)
    \/ HandleFinish(payload)
    \/ HandleAct(payload)
    \/ HandleInit(payload)
    \/ HandleEnd(payload)
    \/ HandleNoPhase(payload)

\* The setImmediate callback of an ACT message; the check phase of the event
\* loop runs every queued callback before the next I/O event.  The callback
\* reads the clock.  When the call is admitted, startAsyncLLMCall runs up to
\* its await: a snapshot that JSON.parse rejects ends the call at once
\* (catch, finally).
RunImmediate ==
  /\ immediates # << >>
  /\ \E t \in ClockReadings(now) :
       LET task == Head(immediates)
       IN /\ now' = t
          /\ immediates' = Tail(immediates)
          /\ draining' = (Tail(immediates) # << >>)
          /\ IF mayStartLLMCall(llmCallInProgress, t, lastLLMCallTime)
               THEN /\ lastLLMCallTime' = t
                    /\ llmCallInProgress' = task.json
                    /\ IF task.json
                         THEN /\ inflight' =
                                   inflight \cup { [id |-> task.id,
                                                    level |-> levelCount,
                                                    active |-> gameActive] }
                              /\ starts' = Append(starts, [at |-> t,
                                                           level |-> levelCount])
                         ELSE UNCHANGED << inflight, starts >>
               ELSE UNCHANGED << lastLLMCallTime, starts, llmCallInProgress,
                                 inflight >>
  /\ UNCHANGED << socket, gameActive, onSessionEnd, pendingLLMAction,
                  levelCount, promptLevel, nextId, out, done, lastMsg,
                  sessionEndCalls, endedHere, closing, sessionEnding, acts, emitted,
                  chanVars, fnVars, faultVars, peerVars, hostVars >>

\* (mutant) the flag is cleared at the end of the try block, not in finally
FinishLLMCallWithoutFinally ==
  /\ ~draining
  /\ \E call \in inflight, outcome \in Outcomes :
       /\ inflight' = inflight \ { call }
       /\ pendingLLMAction' = cacheAfterCall(pendingLLMAction, outcome)
       /\ llmCallInProgress' =
            IF outcome.kind = "ok" THEN FALSE ELSE llmCallInProgress
       /\ endedHere' = (endedHere \/ call.level = levelCount)
       /\ done' = [id |-> call.id, level |-> call.level,
                   active |-> call.active, endedIn |-> levelCount,
                   ok |-> (outcome.kind = "ok"),
                   action |-> IF outcome.kind = "ok"
                                THEN parseAction(outcome.text, VALID_ACTIONS)
                                ELSE Null]
  /\ UNCHANGED << socket, gameActive, onSessionEnd, lastLLMCallTime,
                  levelCount, promptLevel, now, nextId, out, immediates,
                  draining, starts, lastMsg, sessionEndCalls,
                  closing, sessionEnding, acts, emitted,
                  chanVars, fnVars, faultVars, peerVars, hostVars >>

\* startAsyncLLMCall after its await: the fetch of one call ends
FinishLLMCall ==
  /\ ~draining
  /\ \E call \in inflight, outcome \in Outcomes :
       /\ inflight' = inflight \ { call }
       /\ pendingLLMAction' = cacheAfterCall(pendingLLMAction, outcome)
       /\ llmCallInProgress' = FALSE
       /\ endedHere' = (endedHere \/ call.level = levelCount)
       /\ done' = [id |-> call.id, level |-> call.level,
                   active |-> call.active, endedIn |-> levelCount,
                   ok |-> (outcome.kind = "ok"),
                   action |-> IF outcome.kind = "ok"
                                THEN parseAction(outcome.text, VALID_ACTIONS)
                                ELSE Null]
  /\ UNCHANGED << socket, gameActive, onSessionEnd, lastLLMCallTime,
                  levelCount, promptLevel, now, nextId, out, immediates,
                  draining, starts, lastMsg, sessionEndCalls,
                  closing, sessionEnding, acts, emitted,
                  chanVars, fnVars, faultVars, peerVars, hostVars >>

\* socket 'error' event; Node destroys the socket and emits 'close' next
SocketError ==
  /\ socket = "open"
  /\ ~draining
  /\ socket' = "errored"
  /\ gameActive' = FALSE
  /\ TriggerSessionEnd
  /\ sessionEnding' = TRUE
  /\ UNCHANGED << pendingLLMAction, llmCallInProgress, lastLLMCallTime,
                  levelCount, promptLevel, now, nextId, out, immediates,
                  draining, inflight, starts, done, lastMsg,
                  endedHere, closing, acts, emitted,
                  chanVars, fnVars, faultVars, peerVars, hostVars >>

\* socket 'close' event: after the peer closed, after an error, or after
\* disconnect() destroyed the socket (the handlers stay registered)
SocketClose ==
  /\ (socket \in { "open", "errored" } \/ closing)
  /\ ~draining
  /\ socket' = IF socket = "null" THEN "null" ELSE "closed"
  /\ gameActive' = FALSE
  /\ TriggerSessionEnd
  /\ closing' = FALSE
  /\ sessionEnding' = TRUE
  /\ UNCHANGED << pendingLLMAction, llmCallInProgress, lastLLMCallTime,
                  levelCount, promptLevel, now, nextId, out, immediates,
                  draining, inflight, starts, done, lastMsg,
                  endedHere, acts, emitted,
                  chanVars, fnVars, faultVars, peerVars, hostVars >>

\* (mutant) disconnect() leaves the session-end callback installed
DisconnectKeepingCallback ==
  /\ socket = "open"
  /\ onSessionEnd
  /\ ~draining
  /\ gameActive' = FALSE
  /\ socket' = "null"
  /\ closing' = TRUE
  /\ UNCHANGED << onSessionEnd,
                  pendingLLMAction, llmCallInProgress, lastLLMCallTime,
                  levelCount, promptLevel, now, nextId, out, immediates,
                  draining, inflight, starts, done, lastMsg, sessionEndCalls,
                  endedHere, sessionEnding, acts, emitted,
                  chanVars, fnVars, faultVars, peerVars, hostVars >>

\* disconnect(), called by the server for a game it still lists as active:
\* the session-end callback removes the game from that list, so the call
\* comes only while the callback is installed.  socket.destroy() makes the
\* socket emit 'close' later.
Disconnect ==
  /\ socket = "open"
  /\ onSessionEnd
  /\ ~draining
  /\ gameActive' = FALSE
  /\ onSessionEnd' = FALSE
  /\ socket' = "null"
  /\ closing' = TRUE
  /\ UNCHANGED << pendingLLMAction, llmCallInProgress, lastLLMCallTime,
                  levelCount, promptLevel, now, nextId, out, immediates,
                  draining, inflight, starts, done, lastMsg, sessionEndCalls,
                  endedHere, sessionEnding, acts, emitted,
                  chanVars, fnVars, faultVars, peerVars, hostVars >>

\* sendMessageWithId called on its own, whatever the connection is
SendMessage ==
  \E msgId \in 1..MaxMsgs, msg \in { << "START_DONE" >>, << "END_DONE" >> } :
    /\ lastSend.n < MaxMsgs
    /\ out' = sendMessageWithId(socket, out, msgId, msg)
    /\ lastSend' = [n |-> lastSend.n + 1, id |-> msgId, msg |-> msg,
                    socket |-> socket]
    /\ UNCHANGED << socket, gameActive, onSessionEnd, pendingLLMAction,
                    llmCallInProgress, lastLLMCallTime, levelCount,
                    promptLevel, now, nextId, immediates, draining, inflight,
                    starts, done, lastMsg, sessionEndCalls, endedHere,
                    closing, sessionEnding, acts, emitted, chanVars,
                    parserVars, composerVars, invocation, faultVars, peerVars, hostVars, classified >>

(***************************************************************************)
(* The response parser applied on its own.                                 *)
(***************************************************************************)
Words ==
  { "hmm", "go", "ACTION_UP", "action_left", "ACTION:", "ACTION_UPWARD" }

RECURSIVE wordsUpTo(_)
\* the texts of 0..n words
wordsUpTo(n) ==
  IF n = 0 THEN { << >> }
  ELSE LET shorter == wordsUpTo(n - 1)
       IN shorter \cup { Append(t, w) : t \in shorter, w \in Words }

Texts == wordsUpTo(MaxWords)

\* the legal-action lists a caller supplies: tokens of the game's vocabulary,
\* each at most once, in any order; and the parser's default
LegalTokens == { "ACTION_NIL", "ACTION_UP", "ACTION_LEFT" }

LegalLists ==
  { VALID_ACTIONS }
    \cup { l \in UNION { [1..n -> LegalTokens] : n \in 0..Cardinality(LegalTokens) } :
             \A i, j \in 1..Len(l) : i # j => l[i] # l[j] }

\* parseAction(llmResponse, availableActions) applied, once, to any text and
\* list
ApplyParseAction ==
  \E text \in Texts, legal \in LegalLists :
    /\ parserResult = Null
    /\ parserText' = text
    /\ parserActions' = legal
    /\ parserResult' = parseAction(text, legal)
    /\ UNCHANGED << relayVars, chanVars, composerVars, lastSend, invocation,
                    faultVars, peerVars, hostVars, classified >>

SpecParser == Init /\ [][ApplyParseAction]_vars

(***************************************************************************)
(* The prompt composer (state-converter) applied on its own.  A text is a  *)
(* string; a template is a sequence of pieces, each a literal text or a    *)
(* placeholder {{name}} with a name of word characters.                    *)
(***************************************************************************)
RECURSIVE joinText(_, _)
\* Array.prototype.join(sep) on texts
joinText(parts, sep) ==
  IF Len(parts) = 0 THEN ""
  ELSE IF Len(parts) = 1 THEN parts[1]
  ELSE parts[1] \o sep \o joinText(Tail(parts), sep)

\* sso.<field> || fallback, for a number
numberOr(snapshot, field, fallback) ==
  IF field \in DOMAIN snapshot /\ snapshot[field] # 0
    THEN snapshot[field] ELSE fallback

\* sso.availableActions || ['ACTION_NIL']
actionsOf(snapshot) ==
  IF "availableActions" \in DOMAIN snapshot THEN snapshot.availableActions
  ELSE << "ACTION_NIL" >>

\* resolveTemplate: const vars = {...}
templateVars(snapshot, extra) ==
  [gameName |-> IF extra.gameName # "" THEN extra.gameName ELSE "unknown",
   gameScore |-> ToString(numberOr(snapshot, "gameScore", 0)),
   avatarHealthPoints |-> ToString(numberOr(snapshot, "avatarHealthPoints", 0)),
   gameTick |-> ToString(numberOr(snapshot, "gameTick", 0)),
   availableActions |-> joinText(actionsOf(snapshot), ", "),
   avatarPosition |->
     IF "avatarPosition" \in DOMAIN snapshot
       THEN "(" \o ToString(snapshot.avatarPosition[1]) \o ", "
                \o ToString(snapshot.avatarPosition[2]) \o ")"
     ELSE "(0, 0)"]

\* vars is an object literal: vars[key] also finds what Object.prototype
\* holds, and String() of such a function is its source text
ObjectPrototype == { "constructor", "toString" }

inherited(key) ==
  "function " \o (IF key = "constructor" THEN "Object" ELSE key)
              \o "() { [native code] }"

\* the callback of templateContent.replace(/\{\{(\w+)\}\}/g, ...)
replacement(key, tvars) ==
  IF key \in DOMAIN tvars THEN tvars[key]
  ELSE IF key \in ObjectPrototype THEN inherited(key)
  ELSE "{{" \o key \o "}}"

RECURSIVE replaceAll(_, _)
replaceAll(tokens, tvars) ==
  IF tokens = << >> THEN ""
  ELSE (IF Head(tokens).ph THEN replacement(Head(tokens).s, tvars)
        ELSE Head(tokens).s) \o replaceAll(Tail(tokens), tvars)

\* resolveTemplate(templateContent, sso, extraVars); null for a template that
\* is absent or empty
resolveTemplate(content, snapshot, extra) ==
  IF content.absent \/ content.tokens = << >> THEN Null
  ELSE replaceAll(content.tokens, templateVars(snapshot, extra))

\* buildPrompt: const tickState = `...` (the long dash of the source is
\* written "-")
tickState(snapshot) ==
  "Current State - Score: " \o ToString(numberOr(snapshot, "gameScore", 0))
    \o " | Health: " \o ToString(numberOr(snapshot, "avatarHealthPoints", 100))
    \o " | Tick: " \o ToString(numberOr(snapshot, "gameTick", 0))
    \o "\nAvailable actions: " \o joinText(actionsOf(snapshot), ", ")
    \o "\n\nChoose ONE action. Respond with ONLY the action name (e.g., ACTION_UP)."

\* Array.prototype.filter(Boolean) on texts: null and '' are dropped
filterBoolean(parts) == SelectSeq(parts, LAMBDA x : x # Null /\ x # "")

\* (mutant) the layers are joined without the filter, an absent one as ''
buildPromptUnfiltered(snapshot, config) ==
  LET extra == [gameName |-> config.gameName]
      text(layer) == LET r == resolveTemplate(layer, snapshot, extra)
                     IN IF r = Null THEN "" ELSE r
  IN [systemMessage |-> resolveTemplate(config.systemContent, snapshot, extra),
      userMessage |-> joinText(<< text(config.gameContent),
                                  text(config.levelContent),
                                  tickState(snapshot) >>, "\n\n")]

\* buildPrompt(sso, promptConfig) for a resolved configuration (connect and
\* handleInit always install one)
buildPrompt(snapshot, config) ==
  LET extra == [gameName |-> config.gameName]
      systemMessage == resolveTemplate(config.systemContent, snapshot, extra)
      gameContext == resolveTemplate(config.gameContent, snapshot, extra)
      levelContext == resolveTemplate(config.levelContent, snapshot, extra)
  IN [systemMessage |-> systemMessage,
      userMessage |-> joinText(filterBoolean(<< gameContext, levelContext,
                                                tickState(snapshot) >>),
                               "\n\n")]

\* the inputs
Snapshots ==
  { [gameTick |-> 0],
    [gameScore |-> 42, avatarHealthPoints |-> 3, gameTick |-> 17,
     availableActions |-> << "ACTION_UP", "ACTION_LEFT" >>,
     avatarPosition |-> << 10, 20 >>],
    [gameScore |-> 0, avatarHealthPoints |-> 0, gameTick |-> 5,
     availableActions |-> << >>] }

PlaceholderNames ==
  { "gameName", "gameScore", "avatarHealthPoints", "gameTick",
    "availableActions", "avatarPosition", "foo", "constructor" }

Pieces ==
  { [ph |-> FALSE, s |-> "Score is "] }
    \cup { [ph |-> TRUE, s |-> name] : name \in PlaceholderNames }

RECURSIVE piecesUpTo(_)
piecesUpTo(n) ==
  IF n = 0 THEN { << >> }
  ELSE LET shorter == piecesUpTo(n - 1)
       IN shorter \cup { Append(t, x) : t \in shorter, x \in Pieces }

Layers ==
  { NoLayer } \cup { [absent |-> FALSE, tokens |-> t] : t \in piecesUpTo(MaxTokens) }

GameNames == { "", "aliens" }

\* the layers of a configuration: absent, empty, or one piece
ConfigLayers == { layer \in Layers : Len(layer.tokens) <= 1 }

Configs ==
  [gameName : GameNames, systemContent : { NoLayer },
   gameContent : ConfigLayers, levelContent : ConfigLayers]
    \cup [gameName : { "aliens" }, systemContent : ConfigLayers,
          gameContent : { NoLayer }, levelContent : { NoLayer }]

\* resolveTemplate applied, once, to any template and snapshot
ApplyResolveTemplate ==
  \E content \in Layers, snapshot \in Snapshots, name \in GameNames :
    /\ resolved = Unapplied
    /\ templateContent' = content
    /\ sso' = snapshot
    /\ extraVars' = [gameName |-> name]
    /\ resolved' = resolveTemplate(content, snapshot, [gameName |-> name])
    /\ UNCHANGED << relayVars, chanVars, parserVars, lastSend, invocation,
                    faultVars, peerVars, hostVars, classified,
                    promptConfig, prompt >>

SpecTemplate == Init /\ [][ApplyResolveTemplate]_vars

\* buildPrompt applied, once, to any snapshot and resolved configuration
ApplyBuildPrompt ==
  \E snapshot \in Snapshots, config \in Configs :
    /\ prompt.userMessage = Unapplied
    /\ sso' = snapshot
    /\ promptConfig' = config
    /\ prompt' = buildPrompt(snapshot, config)
    /\ UNCHANGED << relayVars, chanVars, parserVars, lastSend, invocation,
                    faultVars, peerVars, hostVars, classified,
                    templateContent, extraVars, resolved >>

SpecPrompt == Init /\ [][ApplyBuildPrompt]_vars

(***************************************************************************)
(* Phase detection applied on its own.  A payload text is a sequence of    *)
(* pieces: a phase marker "phase":"<P>", or a stretch of other text of a   *)
(* given length.                                                           *)
(***************************************************************************)
\* '"phase":"ACT"', '"phase":"INIT"', '"phase":"END"' and their lengths
Marker(phase) ==
  [marker |-> phase, length |-> IF phase = "INIT" THEN 14 ELSE 13]

OtherText(length) == [marker |-> "", length |-> length]

RECURSIVE substring(_, _)
\* jsonPayload.substring(0, n): a piece that the cut goes through is left
\* as text, a marker cut short is no marker
substring(text, n) ==
  IF text = << >> \/ n = 0 THEN << >>
  ELSE IF Head(text).length <= n
    THEN << Head(text) >> \o substring(Tail(text), n - Head(text).length)
  ELSE << OtherText(n) >>

RECURSIVE lengthOf(_)
lengthOf(text) ==
  IF text = << >> THEN 0 ELSE Head(text).length + lengthOf(Tail(text))

\* Math.min
min(a, b) == IF a <= b THEN a ELSE b

\* the phases P for which text.includes('"phase":"P"')
markersIn(text) ==
  { text[i].marker : i \in { j \in 1..Len(text) : text[j].marker # "" } }

\* what processMessage keeps of a structured payload
structuredFrom(jsonPayload) ==
  Structured(markersIn(substring(jsonPayload,
                                 min(HeadLength, lengthOf(jsonPayload)))),
             markersIn(jsonPayload), TRUE)

PayloadPieces ==
  { Marker(phase) : phase \in Phases }
    \cup { OtherText(n) : n \in { 10, HeadLength - 13, HeadLength - 10 } }

PayloadTexts == seqsUpTo(PayloadPieces, MaxPieces)

\* the phase detection of processMessage applied, once, to any payload text
ApplyClassify ==
  \E jsonPayload \in PayloadTexts :
    /\ classified.phase = Unapplied
    /\ classified' = [jsonPayload |-> jsonPayload,
                      phase |-> Classify(structuredFrom(jsonPayload))]
    /\ UNCHANGED << relayVars, chanVars, parserVars, composerVars, lastSend,
                    invocation, faultVars, peerVars, hostVars >>

SpecClassify == Init /\ [][ApplyClassify]_vars

(***************************************************************************)
(* startAsyncLLMCall applied on its own: from its call to its await, and   *)
(* from the end of its fetch to its return.  A model identifier is the     *)
(* sequence of its parts and of the separators between them.               *)
(***************************************************************************)
ModelIds ==
  { << "gemma3:1b" >>,
    << "moonshotai", "/", "kimi-k2-0905:exacto" >>,
    << "library", "/", "gemma3:1b" >> }

\* process.env.OPENROUTER_API_KEY || null
ApiKeys == { Null, "sk-or-v1" }

\* JSON.parse(jsonPayload): a snapshot, or a text that JSON.parse rejects
NotJSON == [unparseable |-> TRUE]

parses(jsonPayload) == "unparseable" \notin DOMAIN jsonPayload

\* this.model.includes('/') ? config.openrouter.apiUrl : config.ollama.apiUrl
apiUrl(model) ==
  IF "/" \in SeqToSet(model) THEN "config.openrouter.apiUrl"
  ELSE "config.ollama.apiUrl"

\* the Authorization header of the request, Null when there is none:
\* if (this.apiKey) headers['Authorization'] = `Bearer ${this.apiKey}`
Authorization(apiKey) ==
  IF apiKey # Null THEN "Bearer " \o apiKey ELSE Null

\* the actions a call can find cached
CachedActions == { Null, "ACTION_DOWN", "ACTION_UP" }

\* the payloads of the ACT messages that launch a call
ActPayloads ==
  Snapshots
    \cup { [gameScore |-> 1, avatarHealthPoints |-> 2, gameTick |-> 3,
            availableActions |-> << "ACTION_LEFT", "ACTION_USE" >>],
           NotJSON }

\* startAsyncLLMCall(jsonPayload) up to its await: the flag is set, the
\* payload is parsed, the request is made; a payload that JSON.parse
\* rejects takes the call through catch and finally at once
StartAsyncLLMCall ==
  \E model \in ModelIds, apiKey \in ApiKeys, cached \in CachedActions,
     jsonPayload \in ActPayloads :
    /\ invocation.stage = "idle"
    /\ invocation' =
         [stage |-> IF parses(jsonPayload) THEN "awaiting" ELSE "returned",
          model |-> model,
          apiKey |-> apiKey,
          jsonPayload |-> jsonPayload,
          pendingBefore |-> cached,
          pendingLLMAction |-> cached,
          llmCallInProgress |-> parses(jsonPayload),
          request |-> IF parses(jsonPayload)
                        THEN [apiUrl |-> apiUrl(model),
                              Authorization |-> Authorization(apiKey)]
                      ELSE NoRequest,
          outcome |-> "none",
          emitted |-> << >>]
    /\ UNCHANGED << relayVars, chanVars, parserVars, composerVars, lastSend,
                    faultVars, peerVars, hostVars, classified >>

\* startAsyncLLMCall after its await, to its return
FetchSettles ==
  \E outcome \in Outcomes :
    /\ invocation.stage = "awaiting"
    /\ invocation' =
         [invocation EXCEPT
            !.stage = "returned",
            !.outcome = outcome.kind,
            !.pendingLLMAction = cacheAfterCall(@, outcome),
            !.llmCallInProgress = FALSE,
            !.emitted = IF emittedBy(outcome) = "none" THEN << >>
                        ELSE << emittedBy(outcome) >>]
    /\ UNCHANGED << relayVars, chanVars, parserVars, composerVars, lastSend,
                    faultVars, peerVars, hostVars, classified >>

NextInvoke ==
  \/ StartAsyncLLMCall
  \/ FetchSettles

SpecInvoke == Init /\ [][NextInvoke]_vars

(***************************************************************************)
(* The channel.  Text is a sequence of characters; the stream carries the  *)
(* characters of Chars and the newline that ends a frame.                  *)
(***************************************************************************)
NL == "\n"
Chars == { "#", "a", " " }

\* The socket delivers bytes (no setEncoding): the one-byte characters, and
\* the two bytes C3 A9 of a two-byte UTF-8 character.
LeadByte == "C3"
ContinuationByte == "A9"
TwoByteChar == "e-acute"
ReplacementChar == "U+FFFD"
Bytes == Chars \cup { NL, LeadByte, ContinuationByte }

RECURSIVE toString(_)
\* Buffer.prototype.toString(), UTF-8: a lead byte with its continuation
\* byte is one character; a lead byte without one, and a continuation byte
\* without its lead byte, each decode to U+FFFD.
toString(data) ==
  IF data = << >> THEN << >>
  ELSE IF Head(data) = LeadByte /\ Len(data) > 1 /\ data[2] = ContinuationByte
    THEN << TwoByteChar >> \o toString(Tail(Tail(data)))
  ELSE IF Head(data) \in { LeadByte, ContinuationByte }
    THEN << ReplacementChar >> \o toString(Tail(data))
  ELSE << Head(data) >> \o toString(Tail(data))

Chunks == seqsUpTo(Bytes, MaxChunk) \ { << >> }

RECURSIVE split(_, _)
\* String.prototype.split(sep), sep one character
split(s, sep) ==
  IF s = << >> THEN << << >> >>
  ELSE LET rest == split(Tail(s), sep)
       IN IF Head(s) = sep THEN << << >> >> \o rest
          ELSE << << Head(s) >> \o Head(rest) >> \o Tail(rest)

RECURSIVE join(_, _)
\* Array.prototype.join(sep)
join(parts, sep) ==
  IF Len(parts) = 0 THEN << >>
  ELSE IF Len(parts) = 1 THEN parts[1]
  ELSE parts[1] \o << sep >> \o join(Tail(parts), sep)

RECURSIVE trimStart(_)
trimStart(s) ==
  IF s # << >> /\ Head(s) = " " THEN trimStart(Tail(s)) ELSE s

RECURSIVE trimEnd(_)
trimEnd(s) ==
  IF s # << >> /\ s[Len(s)] = " " THEN trimEnd(SubSeq(s, 1, Len(s) - 1)) ELSE s

\* String.prototype.trim()
trim(s) == trimEnd(trimStart(s))

\* (mutant) the payload is taken to be the second '#'-separated part
splitMessageSecondPart(message) ==
  LET parts == split(message, "#")
  IN [msgId |-> parts[1],
      jsonPayload |-> IF Len(parts) > 1 THEN parts[2] ELSE << >>]

\* processMessage: msgId and jsonPayload of a message
splitMessage(message) ==
  LET parts == split(message, "#")
  IN [msgId |-> parts[1], jsonPayload |-> join(Tail(parts), "#")]

RECURSIVE dispatchFrom(_, _)
\* handleData's loop from the k-th complete message on: a message that is
\* blank after trim() is skipped, and processMessage returns at once on a
\* message without payload; every other message is handed on.
dispatchFrom(messages, k) ==
  IF k > Len(messages) THEN << >>
  ELSE LET message == trim(messages[k])
           parsed == splitMessage(message)
           handed == IF message # << >> /\ parsed.jsonPayload # << >>
                       THEN << [line |-> k, msgId |-> parsed.msgId,
                                jsonPayload |-> parsed.jsonPayload] >>
                     ELSE << >>
       IN handed \o dispatchFrom(messages, k + 1)

\* what the stream holds, told from the positions of its newlines
NewlinesOf(s) == { i \in 1..Len(s) : s[i] = NL }

NthOf(S, k) == CHOOSE i \in S : Cardinality({ j \in S : j < i }) = k - 1

CompleteLines(s) ==
  [k \in 1..Cardinality(NewlinesOf(s)) |->
     SubSeq(s,
            IF k = 1 THEN 1 ELSE NthOf(NewlinesOf(s), k - 1) + 1,
            NthOf(NewlinesOf(s), k) - 1)]

Unterminated(s) ==
  IF NewlinesOf(s) = {} THEN s
  ELSE SubSeq(s, NthOf(NewlinesOf(s), Cardinality(NewlinesOf(s))) + 1, Len(s))

\* msgId and jsonPayload of the messages handed on
handedOn(messages) ==
  [k \in 1..Len(messages) |->
     [msgId |-> messages[k].msgId, jsonPayload |-> messages[k].jsonPayload]]

\* socket 'data' event: handleData(data)
HandleData(data) ==
  /\ socket = "open"
  /\ Len(stream) + Len(data) <= MaxData
  /\ LET chunk == toString(data)
         messages == split(buffer \o chunk, NL)
         handed == dispatchFrom(SubSeq(messages, 1, Len(messages) - 1), 1)
     IN /\ buffer' = messages[Len(messages)]
        /\ dispatched' = handed
        /\ delivered' = delivered \o handedOn(handed)
        /\ lines' = CompleteLines(tail \o chunk)
        /\ tail' = Unterminated(tail \o chunk)
  /\ stream' = stream \o data
  /\ UNCHANGED << relayVars, fnVars, faultVars, peerVars, hostVars >>

ReceiveData == \E data \in Chunks : HandleData(data)

Next ==
  \/ Connect
  \/ ProcessMessage
  \/ RunImmediate
  \/ FinishLLMCall
  \/ SocketError
  \/ SocketClose
  \/ Disconnect

Spec == Init /\ [][Next]_vars

\* a longer session that stays connected and in which the peer sends ACT and
\* END messages only
NextLevels ==
  \/ Connect
  \/ \E payload \in Payloads : HandleAct(payload) \/ HandleEnd(payload)
  \/ RunImmediate
  \/ FinishLLMCall

SpecLevels == InitLonger /\ [][NextLevels]_vars

\* the relay when the calls processMessage makes in its FINISH branch may
\* throw
ProcessMessageThrowing ==
  \E payload \in Payloads : HandleFinishThrowing(payload)

NextThrowing ==
  \/ Next
  \/ ProcessMessageThrowing

SpecThrowing == Init /\ [][NextThrowing]_vars

\* the channel alone: the frames of the stream up to their dispatch
NextChannel ==
  \/ Connect
  \/ ReceiveData

SpecChannel == Init /\ [][NextChannel]_vars

\* the connection's life with sendMessageWithId called at any moment of it
NextSend ==
  \/ Connect
  \/ SocketError
  \/ SocketClose
  \/ Disconnect
  \/ SendMessage

SpecSend == Init /\ [][NextSend]_vars

(***************************************************************************)
(* The game server (src/unnamed/part_001 lines 83-335) and its process     *)
(* manager (src/unnamed/part_000 lines 1-178).  A start request runs in    *)
(* three steps, cut at its two awaits; the simulation processes bind the   *)
(* one socket port, of which the first to bind holds it until it exits.    *)
(***************************************************************************)

relayUnchanged ==
  UNCHANGED << relayVars, chanVars, fnVars, faultVars, peerVars, waiting,
               storeVars >>

Alive == { "starting", "listening", "bindFailed" }

\* GameManager.stopGame on each process of S: a registered process gets
\* SIGTERM and leaves the registry, an unknown one is left alone
stopGame(S) ==
  /\ javaProcess' = [p \in Requests |->
                       IF p \in S \cap activeProcesses THEN "exited"
                       ELSE javaProcess[p]]
  /\ activeProcesses' = activeProcesses \ S

\* POST /api/game/start up to its first await: every active game is
\* disconnected, stopped and removed, streaming stops, the process is
\* spawned and registered, waitForReady begins
StartGame(r) ==
  /\ pc[r] = "idle"
  /\ \A q \in 1..(r - 1) : pc[q] # "idle"
  /\ llmClient' = [g \in Requests |->
                     IF g \in activeGames THEN "destroyed"
                     ELSE llmClient[g]]
  /\ sessionEndOf' = [g \in Requests |->
                        IF g \in activeGames THEN FALSE
                        ELSE sessionEndOf[g]]
  /\ javaProcess' = [p \in Requests |->
                       IF p = r THEN "starting"
                       ELSE IF p \in activeGames \cap activeProcesses
                              THEN "exited"
                       ELSE javaProcess[p]]
  /\ activeProcesses' = (activeProcesses \ activeGames) \cup { r }
  /\ activeGames' = {}
  /\ screenshotWatcher' = FALSE
  /\ pc' = [pc EXCEPT ![r] = "waitForReady"]
  /\ UNCHANGED res
  /\ relayUnchanged

\* the process binds the socket port and prints the ready marker, or finds
\* the port in use and prints the bind failure
ProcessBinds(p) ==
  /\ javaProcess[p] = "starting"
  /\ javaProcess' =
       [javaProcess EXCEPT
          ![p] = IF \E q \in Requests : javaProcess[q] = "listening"
                   THEN "bindFailed" ELSE "listening"]
  /\ UNCHANGED << pc, activeGames, activeProcesses, screenshotWatcher,
                  llmClient, sessionEndOf, res >>
  /\ relayUnchanged

\* the process exits by itself; its 'close' handler removes it from the
\* registry
ProcessExits(p) ==
  /\ javaProcess[p] \in Alive
  /\ javaProcess' = [javaProcess EXCEPT ![p] = "exited"]
  /\ activeProcesses' = activeProcesses \ { p }
  /\ UNCHANGED << pc, activeGames, screenshotWatcher, llmClient,
                  sessionEndOf, res >>
  /\ relayUnchanged

\* the cleanup closure installed as llmClient.onSessionEnd of request r
SessionEndCleanup(r) ==
  /\ activeGames' = activeGames \ { r }
  /\ screenshotWatcher' = FALSE
  /\ stopGame({ r })

\* the start request after waitForReady gave false
NotReady(r) ==
  /\ stopGame({ r })
  /\ pc' = [pc EXCEPT ![r] = "failed"]
  /\ res' = [res EXCEPT ![r] = 500]
  /\ UNCHANGED << activeGames, screenshotWatcher, llmClient, sessionEndOf >>

\* waitForReady settles and the start request goes on to its second await:
\* true when the process printed the marker, false when it printed the bind
\* failure, exited, or stayed silent until the timeout
WaitForReadySettles(r) ==
  /\ pc[r] = "waitForReady"
  /\ IF javaProcess[r] = "listening"
       THEN /\ screenshotWatcher' = TRUE
            /\ sessionEndOf' = [sessionEndOf EXCEPT ![r] = TRUE]
            /\ llmClient' = [llmClient EXCEPT ![r] = "connecting"]
            /\ pc' = [pc EXCEPT ![r] = "connecting"]
            /\ UNCHANGED << activeGames, activeProcesses, javaProcess, res >>
       ELSE NotReady(r)
  /\ relayUnchanged

\* connect() settles: the 'connect' event resolves it and the game is
\* registered; an 'error' event runs the session-end callback, rejects it,
\* and the catch block stops the process and the streaming again
ConnectSettles(r) ==
  /\ pc[r] = "connecting"
  /\ \/ /\ javaProcess[r] = "listening"
        /\ llmClient' = [llmClient EXCEPT ![r] = "open"]
        /\ activeGames' = activeGames \cup { r }
        /\ pc' = [pc EXCEPT ![r] = "started"]
        /\ res' = [res EXCEPT ![r] = 200]
        /\ UNCHANGED << activeProcesses, javaProcess, screenshotWatcher,
                        sessionEndOf >>
     \/ /\ SessionEndCleanup(r)
        /\ sessionEndOf' = [sessionEndOf EXCEPT ![r] = FALSE]
        /\ llmClient' = [llmClient EXCEPT ![r] = "closed"]
        /\ pc' = [pc EXCEPT ![r] = "failed"]
        /\ res' = [res EXCEPT ![r] = 500]
  /\ relayUnchanged

\* FINISH, 'error' or 'close' on a connected client: _triggerSessionEnd
SessionEnds(r) ==
  /\ llmClient[r] = "open"
  /\ llmClient' = [llmClient EXCEPT ![r] = "closed"]
  /\ sessionEndOf' = [sessionEndOf EXCEPT ![r] = FALSE]
  /\ IF sessionEndOf[r]
       THEN SessionEndCleanup(r)
       ELSE UNCHANGED << activeGames, screenshotWatcher, javaProcess,
                         activeProcesses >>
  /\ UNCHANGED << pc, res >>
  /\ relayUnchanged

\* the 'close' event of a client that disconnect() destroyed
ClosedAfterDisconnect(r) ==
  /\ llmClient[r] = "destroyed"
  /\ llmClient' = [llmClient EXCEPT ![r] = "closed"]
  /\ UNCHANGED << pc, activeGames, activeProcesses, javaProcess,
                  screenshotWatcher, sessionEndOf, res >>
  /\ relayUnchanged

\* POST /api/game/stop for a game that is active
StopGame(r) ==
  /\ r \in activeGames
  /\ llmClient' = [llmClient EXCEPT ![r] = "destroyed"]
  /\ sessionEndOf' = [sessionEndOf EXCEPT ![r] = FALSE]
  /\ stopGame({ r })
  /\ activeGames' = activeGames \ { r }
  /\ screenshotWatcher' = FALSE
  /\ UNCHANGED << pc, res >>
  /\ relayUnchanged

NextServer ==
  \E r \in Requests :
    \/ StartGame(r)
    \/ ProcessBinds(r)
    \/ ProcessExits(r)
    \/ WaitForReadySettles(r)
    \/ ConnectSettles(r)
    \/ SessionEnds(r)
    \/ ClosedAfterDisconnect(r)
    \/ StopGame(r)

SpecServer == Init /\ [][NextServer]_vars

(***************************************************************************)
(* Properties of the game server.                                          *)
(***************************************************************************)

\* C34: at most one game is registered as active at any time, also while
\* start requests overlap at their awaits.
C34_AtMostOneActiveGame == Cardinality(activeGames) <= 1

\* C35: a start request that fails, at waitForReady or at connect, answers
\* with an error status and leaves nothing behind: its process is stopped and
\* out of the registry, it has no entry among the active games, and
\* screenshot streaming is stopped.
C35_FailedStartLeavesNothing ==
  [][ \A r \in Requests :
        (pc'[r] = "failed" /\ pc[r] # "failed")
          => /\ res'[r] = 500
             /\ javaProcess'[r] \notin Alive
             /\ r \notin activeProcesses'
             /\ r \notin activeGames'
             /\ ~screenshotWatcher' ]_vars

(***************************************************************************)
(* GameManager.waitForReady on its own (src/unnamed/part_000 lines         *)
(* 88-134): one call, the output of the process it watches, the ticks of   *)
(* its 50 ms interval and the 'close' event of the process.                *)
(***************************************************************************)

hostUnchanged ==
  UNCHANGED << relayVars, chanVars, fnVars, faultVars, peerVars, serverVars,
               storeVars >>

\* (mutant) the interval callback without its timeout branch
checkIntervalUntimed(marker, bindFailure, timedOut) ==
  IF marker THEN "true"
  ELSE IF bindFailure THEN "false"
  ELSE "pending"

\* one run of the interval callback: the ready marker in stdout is looked
\* for first, then the bind failure in stdout and stderr, then the timeout
checkInterval(marker, bindFailure, timedOut) ==
  IF marker THEN "true"
  ELSE IF bindFailure THEN "false"
  ELSE IF timedOut THEN "false"
  ELSE "pending"

\* waitForReady(processId, timeoutMs) is called: an unknown process resolves
\* the promise with false at once, a known one is polled
CallWaitForReady ==
  /\ waiting.stage = "uncalled"
  /\ \E known \in BOOLEAN, timeoutTicks \in 1..MaxPolls :
       waiting' = [waiting EXCEPT
                     !.known = known,
                     !.timeoutTicks = timeoutTicks,
                     !.stage = IF known THEN "polling" ELSE "settled",
                     !.result = IF known THEN "pending" ELSE "false"]
  /\ hostUnchanged

\* the process writes the ready marker to stdout, or a bind failure to
\* stdout or to stderr, before or after waitForReady is called; the 'data'
\* handlers of startGame keep the chunk
ProcessWrites ==
  /\ waiting.stage \in { "uncalled", "polling" }
  /\ ~waiting.closed
  /\ \E chunk \in { "stdoutMarker", "stdoutBind", "stderrBind" } :
       /\ ~waiting[chunk]
       /\ waiting' = [waiting EXCEPT ![chunk] = TRUE]
  /\ hostUnchanged

\* the interval fires; timeoutTicks ticks fit into timeoutMs
CheckIntervalFires ==
  /\ waiting.stage = "polling"
  /\ LET result == checkInterval(waiting.stdoutMarker,
                                 waiting.stdoutBind \/ waiting.stderrBind,
                                 waiting.polls + 1 > waiting.timeoutTicks)
     IN waiting' = [waiting EXCEPT
                      !.polls = waiting.polls + 1,
                      !.result = result,
                      !.stage = IF result = "pending" THEN "polling"
                                ELSE "settled"]
  /\ hostUnchanged

\* the process emits 'close' before the promise is settled
ProcessCloses ==
  /\ waiting.stage = "polling"
  /\ waiting' = [waiting EXCEPT !.closed = TRUE, !.result = "false",
                                !.stage = "settled"]
  /\ hostUnchanged

NextReady ==
  \/ CallWaitForReady
  \/ ProcessWrites
  \/ CheckIntervalFires
  \/ ProcessCloses

\* setInterval keeps firing until clearInterval
SpecReady == Init /\ [][NextReady]_vars /\ WF_vars(CheckIntervalFires)

(***************************************************************************)
(* Properties of waitForReady.                                             *)
(***************************************************************************)

\* C36: waitForReady always resolves, with true only if stdout of the
\* process contained the ready marker; with false at once when the process
\* is unknown, and with false when, not ready, the process has reported a
\* bind failure at a tick, has closed, or the timeout has elapsed at a tick;
\* the promise is resolved once and never stays pending.
C36_WaitForReadyResolves ==
  /\ [][ /\ waiting'.result = "true" => waiting'.stdoutMarker
         /\ (waiting.stage = "uncalled" /\ waiting'.stage # "uncalled")
              => (waiting'.result = "false") = ~waiting'.known
         /\ (waiting'.polls # waiting.polls /\ ~waiting.stdoutMarker
             /\ (waiting.stdoutBind \/ waiting.stderrBind
                 \/ waiting'.polls > waiting.timeoutTicks))
              => waiting'.result = "false"
         /\ (waiting'.closed /\ ~waiting.closed) => waiting'.result = "false"
         /\ waiting'.result = "false"
              => \/ ~waiting'.known
                 \/ waiting'.stdoutBind \/ waiting'.stderrBind
                 \/ waiting'.closed
                 \/ waiting'.polls > waiting'.timeoutTicks
         /\ waiting.result # "pending" => waiting'.result = waiting.result
       ]_vars
  /\ (waiting.stage # "uncalled") ~> (waiting.result # "pending")

C36_Witness ==
  /\ waiting.stage = "settled"
  /\ waiting.result = "false"
  /\ waiting.known
  /\ waiting.timeoutTicks = MaxPolls
  /\ waiting.polls = MaxPolls + 1
  /\ ~waiting.closed
  /\ ~waiting.stdoutBind
  /\ ~waiting.stderrBind

(***************************************************************************)
(* The prompt store (src/web/lib/prompt-store.js lines 1-236): template    *)
(* files with their index, game configuration files, and the in-memory     *)
(* cache that resolveGamePromptConfig reads through.  A template is kept   *)
(* as its content, a game configuration as the fields the store reads.     *)
(***************************************************************************)

storeUnchanged ==
  UNCHANGED << relayVars, chanVars, fnVars, faultVars, peerVars, serverVars,
               waiting >>

\* JavaScript truthiness of a string or null
Truthy(x) == x \notin { Null, "" }

\* (mutant) invalidateCache leaves the cache as it is
invalidateCacheKept(c) == c

\* invalidateCache: both maps are cleared
invalidateCache(c) == EmptyCache

\* getCachedTemplate / getCachedGameConfig: the cached data while the entry
\* is there and younger than the TTL, the file otherwise
getCached(entry, file) == IF entry # << >> THEN entry[1] ELSE file

getCachedTemplate(c, id) == getCached(c.templates[id], templateFiles[id])

getCachedGameConfig(c, gameId) ==
  getCached(c.gameConfigs[gameId], gameFiles[gameId])

\* defaultPromptConfig().systemContent
defaultPromptConfig(c) ==
  LET systemTemplate == getCachedTemplate(c, "default-system")
  IN IF systemTemplate # Null THEN systemTemplate ELSE DefaultSystemContent

\* the content of a game or level context
contextContent(c, context) ==
  IF ~context.present THEN Null
  ELSE IF Truthy(context.customOverride) THEN context.customOverride
  ELSE IF Truthy(context.templateId)
         THEN getCachedTemplate(c, context.templateId)
  ELSE Null

\* the content of the configured system template, null without one
configuredSystem(c, config) ==
  IF Truthy(config.systemTemplateId)
    THEN getCachedTemplate(c, config.systemTemplateId)
    ELSE Null

\* resolveGamePromptConfig(gameId, levelId) reading through the cache c
resolveGamePromptConfig(c, gameId, levelId) ==
  LET config == getCachedGameConfig(c, gameId)
  IN IF config = NoConfig
       THEN [systemContent |-> defaultPromptConfig(c),
             gameContent |-> Null, levelContent |-> Null]
       ELSE [systemContent |->
               IF Truthy(configuredSystem(c, config))
                 THEN configuredSystem(c, config)
                 ELSE defaultPromptConfig(c),
             gameContent |-> contextContent(c, config.gameContext),
             levelContent |->
               contextContent(c, config.progressionContexts[levelId])]

\* the template a context makes resolveGamePromptConfig look up
contextLookup(context) ==
  IF context.present /\ ~Truthy(context.customOverride)
     /\ Truthy(context.templateId)
    THEN { context.templateId } ELSE {}

\* the templates that resolveGamePromptConfig looks up
lookedUp(c, gameId, levelId) ==
  LET config == getCachedGameConfig(c, gameId)
  IN IF config = NoConfig THEN { "default-system" }
     ELSE (IF Truthy(config.systemTemplateId)
             THEN { config.systemTemplateId } ELSE {})
          \cup (IF Truthy(configuredSystem(c, config))
                  THEN {} ELSE { "default-system" })
          \cup contextLookup(config.gameContext)
          \cup contextLookup(config.progressionContexts[levelId])

\* the cache after the lookups: what was read from a file and found is kept
cacheAfterLookups(c, gameId, levelId) ==
  [templates |->
     [id \in TemplateIds |->
        IF id \in lookedUp(c, gameId, levelId) /\ c.templates[id] = << >>
           /\ templateFiles[id] # Null
          THEN << templateFiles[id] >> ELSE c.templates[id]],
   gameConfigs |->
     [g \in GameIds |->
        IF g = gameId /\ c.gameConfigs[g] = << >> /\ gameFiles[g] # NoConfig
          THEN << gameFiles[g] >> ELSE c.gameConfigs[g]]]

\* resolveGamePromptConfig is called (connect, handleInit, the preview)
ResolveGamePromptConfig ==
  \E gameId \in GameIds, levelId \in Levels :
    /\ resolution' = [gameId |-> gameId, levelId |-> levelId,
                      config |-> resolveGamePromptConfig(cache, gameId, levelId),
                      after |-> storeResult.op]
    /\ cache' = cacheAfterLookups(cache, gameId, levelId)
    /\ storeResult' = NoResult
    /\ UNCHANGED << templateFiles, templateIndex, gameFiles, removed >>
    /\ storeUnchanged

\* the TTL of a cache entry runs out: it is read from its file again
CacheEntryExpires ==
  /\ \/ \E id \in TemplateIds :
          /\ cache.templates[id] # << >>
          /\ cache' = [cache EXCEPT !.templates[id] = << >>]
     \/ \E g \in GameIds :
          /\ cache.gameConfigs[g] # << >>
          /\ cache' = [cache EXCEPT !.gameConfigs[g] = << >>]
  /\ storeResult' = NoResult
  /\ resolution' = NoResolution
  /\ UNCHANGED << templateFiles, templateIndex, gameFiles, removed >>
  /\ storeUnchanged

\* saveTemplate(template)
SaveTemplate ==
  \E id \in TemplateIds, content \in Contents :
    /\ templateFiles' = [templateFiles EXCEPT ![id] = content]
    /\ templateIndex' = templateIndex \cup { id }
    /\ cache' = invalidateCache(cache)
    /\ removed' = removed \ { id }
    /\ storeResult' = [op |-> "saveTemplate", template |-> id, result |-> "ok"]
    /\ resolution' = NoResolution
    /\ UNCHANGED gameFiles
    /\ storeUnchanged

\* a stored game configuration references the template
references(config, id) ==
  \/ config.systemTemplateId = id
  \/ config.gameContext.templateId = id
  \/ \E l \in Levels : config.progressionContexts[l].templateId = id

\* deleteTemplate(id): refused while a stored game configuration references
\* the template
DeleteTemplate ==
  \E id \in TemplateIds :
    /\ IF \E g \in GameIds : /\ gameFiles[g] # NoConfig
                             /\ references(gameFiles[g], id)
         THEN /\ storeResult' = [op |-> "deleteTemplate", template |-> id,
                                 result |-> "error"]
              /\ UNCHANGED << templateFiles, templateIndex, cache, removed >>
         ELSE /\ templateFiles' = [templateFiles EXCEPT ![id] = Null]
              /\ templateIndex' = templateIndex \ { id }
              /\ cache' = invalidateCache(cache)
              /\ removed' = IF templateFiles[id] # Null
                              THEN removed \cup { id } ELSE removed
              /\ storeResult' = [op |-> "deleteTemplate", template |-> id,
                                 result |-> "ok"]
    /\ resolution' = NoResolution
    /\ UNCHANGED gameFiles
    /\ storeUnchanged

\* saveGameConfig(config)
SaveGameConfig ==
  \E g \in GameIds, config \in GameConfigs :
    /\ gameFiles' = [gameFiles EXCEPT ![g] = config]
    /\ cache' = invalidateCache(cache)
    /\ storeResult' = [op |-> "saveGameConfig", template |-> Null,
                       result |-> "ok"]
    /\ resolution' = NoResolution
    /\ UNCHANGED << templateFiles, templateIndex, removed >>
    /\ storeUnchanged

\* deleteGameConfig(gameId)
DeleteGameConfig ==
  \E g \in GameIds :
    /\ IF gameFiles[g] # NoConfig
         THEN /\ gameFiles' = [gameFiles EXCEPT ![g] = NoConfig]
              /\ cache' = invalidateCache(cache)
              /\ storeResult' = [op |-> "deleteGameConfig", template |-> Null,
                                 result |-> "ok"]
         ELSE /\ storeResult' = [op |-> "deleteGameConfig", template |-> Null,
                                 result |-> "error"]
              /\ UNCHANGED << gameFiles, cache >>
    /\ resolution' = NoResolution
    /\ UNCHANGED << templateFiles, templateIndex, removed >>
    /\ storeUnchanged

NextStore ==
  \/ ResolveGamePromptConfig
  \/ CacheEntryExpires
  \/ SaveTemplate
  \/ DeleteTemplate
  \/ SaveGameConfig
  \/ DeleteGameConfig

SpecStore == Init /\ [][NextStore]_vars

(***************************************************************************)
(* Properties of the prompt store.                                         *)
(***************************************************************************)

\* C37: whatever was saved or deleted through the store before, what
\* resolveGamePromptConfig returns is what it returns from the files alone,
\* and the cache never holds the result of a lookup that found nothing.
C37_CacheNeverStale ==
  [][ /\ resolution'.after # "unresolved"
           => resolution'.config =
                resolveGamePromptConfig(EmptyCache, resolution'.gameId,
                                        resolution'.levelId)
      /\ \A id \in TemplateIds : cache'.templates[id] # << Null >>
      /\ \A g \in GameIds : cache'.gameConfigs[g] # << NoConfig >> ]_vars

C37_Witness ==
  /\ resolution.after = "saveTemplate"
  /\ resolution.config.systemContent = "B"
  /\ cache.templates["t1"] = << "B" >>
  /\ cache.templates["default-system"] = << >>
  /\ cache.gameConfigs[0] # << >>

\* the templates that a game configuration references
referencesOf(config) ==
  { id \in TemplateIds : references(config, id) }

\* C38: deleteTemplate(id) answers with an error and leaves the template
\* file, the index and the cache as they are while a stored game
\* configuration references the template as its system template, its game
\* context template or the template of a progression level; and no stored
\* game configuration ever references a template that was removed through
\* the store.
C38_NoReferenceToRemovedTemplate ==
  [][ /\ (/\ storeResult'.op = "deleteTemplate"
          /\ \E g \in GameIds :
               /\ gameFiles[g] # NoConfig
               /\ references(gameFiles[g], storeResult'.template))
           => /\ storeResult'.result = "error"
              /\ UNCHANGED << templateFiles, templateIndex, cache >>
      /\ \A g \in GameIds :
           gameFiles'[g] # NoConfig
             => referencesOf(gameFiles'[g]) \cap removed' = {} ]_vars

\* C39: resolveGamePromptConfig returns a system content that is not empty:
\* the content of the configured system template when that template is
\* stored with a content, the default system content otherwise; the game
\* content and the content of the requested level are the custom override
\* when that is not empty, else the content of the referenced template, and
\* null when there is neither.
C39_ResolvedLayers ==
  resolution.after # "unresolved"
    => LET config == gameFiles[resolution.gameId]
           layer(context) ==
             IF context.present /\ Truthy(context.customOverride)
               THEN context.customOverride
             ELSE IF context.present /\ Truthy(context.templateId)
                     /\ templateFiles[context.templateId] # Null
               THEN templateFiles[context.templateId]
             ELSE Null
           default ==
             IF templateFiles["default-system"] # Null
               THEN templateFiles["default-system"]
               ELSE DefaultSystemContent
       IN /\ Truthy(resolution.config.systemContent)
          /\ resolution.config.systemContent =
               IF /\ config # NoConfig
                  /\ Truthy(config.systemTemplateId)
                  /\ Truthy(templateFiles[config.systemTemplateId])
                 THEN templateFiles[config.systemTemplateId]
                 ELSE default
          /\ config = NoConfig
               => /\ resolution.config.gameContent = Null
                  /\ resolution.config.levelContent = Null
          /\ config # NoConfig
               => /\ resolution.config.gameContent = layer(config.gameContext)
                  /\ resolution.config.levelContent =
                       layer(config.progressionContexts[resolution.levelId])

(***************************************************************************)
(* Properties of the relay.                                                *)
(***************************************************************************)

\* the frames written under one correlation id
RepliesTo(id) == { k \in 1..Len(out) : out[k].id = id }

\* exactly one frame was written under `id`, and it is an action reply
OneActReply(id) ==
  /\ Cardinality(RepliesTo(id)) = 1
  /\ \A k \in RepliesTo(id) :
       /\ Len(out[k].msg) = 2
       /\ out[k].msg[1] \in SeqToSet(VALID_ACTIONS)
       /\ out[k].msg[2] = "IMAGE"

\* this step dispatched a message of the given phase
Handled(phase) == lastMsg' # lastMsg /\ lastMsg'.phase = phase

\* this step wrote exactly the frame <id>#<msg>
Wrote(id, msg) == out' = Append(out, [id |-> id, msg |-> msg])

\* this step is the end of an LLM call
CallEnded == done' # done

C2_AtMostOneInFlight == Cardinality(inflight) <= 1

\* C3 (as claimed): any two consecutive calls of a session start at least
\* MinInterval apart, whatever messages lie between them.
C3_MinSpacingAlways ==
  \A i \in 1..(Len(starts) - 1) :
    starts[i + 1].at - starts[i].at >= MinInterval

\* C3 (amended): two consecutive calls with no END processed between them
\* start at least MinInterval apart.
C3_MinSpacingWithinLevel ==
  \A i \in 1..(Len(starts) - 1) :
    starts[i + 1].level = starts[i].level
      => starts[i + 1].at - starts[i].at >= MinInterval

C3_Witness ==
  \E i \in 1..(Len(starts) - 1) :
    /\ starts[i + 1].level = starts[i].level
    /\ starts[i + 1].at - starts[i].at >= MinInterval

\* C4 (as claimed): a call that started before an END was processed, or
\* before the session was closed, leaves the cached action as it is when it
\* ends.
C4_StaleResultDiscarded ==
  [][ (CallEnded /\ (\/ done'.level # levelCount
                     \/ (done'.active /\ ~gameActive)))
        => pendingLLMAction' = pendingLLMAction ]_vars

C7_EndResetsUntilNewCall ==
  [][ /\ (Handled("END") /\ lastMsg'.json)
         => /\ levelCount' = levelCount + 1
            /\ pendingLLMAction' = Null
            /\ llmCallInProgress' = FALSE
            /\ lastLLMCallTime' = 0
            /\ Wrote(lastMsg'.id, << "END_DONE" >>)
      /\ (Handled("ACT") /\ levelCount > 0 /\ ~endedHere)
         => Wrote(lastMsg'.id, << "ACTION_NIL", "IMAGE" >>) ]_vars

C9_NeverAbsentAfterFirstCall == done # NoCall => pendingLLMAction # Null

\* C9 (amended): the cached action becomes absent only by a well-formed END,
\* a call that ends successfully leaves an action cached, and no ACT reply
\* carries an absent action: ACTION_NIL stands in for it.
C9_AbsentOnlyByEnd ==
  [][ /\ (pendingLLMAction # Null /\ pendingLLMAction' = Null)
         => (Handled("END") /\ lastMsg'.json)
      /\ (CallEnded /\ done'.ok) => pendingLLMAction' # Null
      /\ Handled("ACT")
         => \E a \in SeqToSet(VALID_ACTIONS) :
              Wrote(lastMsg'.id, << a, "IMAGE" >>) ]_vars

C9_Witness ==
  /\ done.ok
  /\ pendingLLMAction = Null
  /\ lastMsg.phase = "ACT"
  /\ Len(out) > 0
  /\ out[Len(out)] = [id |-> lastMsg.id, msg |-> << "ACTION_NIL", "IMAGE" >>]

\* C12 (as claimed): once a FINISH message, a socket error or a socket close
\* has occurred, the session-end callback has run exactly once, and it has
\* not run before.
C12_TeardownExactlyOnce ==
  sessionEndCalls = IF sessionEnding THEN 1 ELSE 0

\* C12 (amended): the callback runs at most once; it runs at the first
\* FINISH, error or close event unless disconnect() came before that event,
\* and then it never runs; no later event runs it again.
C12_TeardownOnceUnlessDisconnected ==
  [][ /\ sessionEndCalls' <= 1
      /\ ~sessionEnding' => sessionEndCalls' = 0
      /\ (sessionEnding' /\ ~sessionEnding)
           => sessionEndCalls' = IF socket = "null" THEN 0 ELSE 1
      /\ sessionEnding => sessionEndCalls' = sessionEndCalls ]_vars

C12_Witness ==
  /\ lastMsg.phase = "FINISH"
  /\ socket = "closed"
  /\ sessionEnding
  /\ sessionEndCalls = 1

\* the action replies among the frames written, in the order written
ActReplies ==
  SelectSeq(out, LAMBDA f : Len(f.msg) = 2 /\ f.msg[2] = "IMAGE")

\* C13: the action replies on the socket are, in this order, one reply for
\* each ACT message dispatched, under that message's id; no other frame is
\* written under the id of an ACT message, whatever other messages lie
\* between and however many messages are dispatched before the deferred
\* callbacks run.
C13_ActRepliesInArrivalOrder ==
  LET replies == ActReplies
  IN /\ Len(replies) = Len(acts)
     /\ \A k \in 1..Len(acts) :
          /\ replies[k].id = acts[k]
          /\ replies[k].msg[1] \in SeqToSet(VALID_ACTIONS)
     /\ \A k \in 1..Len(out) :
          out[k].id \in SeqToSet(acts) => out[k].msg[Len(out[k].msg)] = "IMAGE"

C13_Witness ==
  /\ acts = << 1, 3 >>
  /\ Len(immediates) = 2
  /\ Len(out) = 3
  /\ out[2] = [id |-> 2, msg |-> << "END_DONE" >>]

\* C14 (as claimed): a structured payload without a phase marker is answered
\* with the fallback action under the message's id.
C14_UnclassifiedAnsweredNil ==
  [][ Handled("NONE")
        => \/ Wrote(lastMsg'.id, << "ACTION_NIL", "IMAGE" >>)
           \/ Wrote(lastMsg'.id, << "ACTION_NIL" >>) ]_vars

\* C15: an INIT or END message whose payload JSON.parse rejects is answered
\* by the one frame INIT_FAILED, respectively END_FAILED, under its id; the
\* step changes nothing else of the session: no teardown, no level change,
\* no change of the cache or of the admission state.
C15_ParseFailureAnswered ==
  [][ ((Handled("INIT") \/ Handled("END")) /\ ~lastMsg'.json)
        => /\ Wrote(lastMsg'.id,
                    << IF lastMsg'.phase = "INIT" THEN "INIT_FAILED"
                       ELSE "END_FAILED" >>)
           /\ UNCHANGED << socket, gameActive, onSessionEnd, sessionEndCalls,
                           sessionEnding, emitted, closing, levelCount,
                           promptLevel, pendingLLMAction, llmCallInProgress,
                           lastLLMCallTime, immediates, inflight >> ]_vars

C15_Witness ==
  /\ Len(out) = 3
  /\ out[1] = [id |-> 1, msg |-> << "INIT_FAILED" >>]
  /\ out[2] = [id |-> 2, msg |-> << "INIT_DONE", "BOTH" >>]
  /\ out[3] = [id |-> 3, msg |-> << "ACTION_NIL", "IMAGE" >>]
  /\ socket = "open"
  /\ sessionEndCalls = 0

\* C19: a sendMessageWithId call made while the socket is absent or
\* destroyed writes no frame and changes nothing; made while the socket is
\* open it writes the frame <id>#<msg>.
C19_SendNoOpUnlessOpen ==
  [][ lastSend'.n # lastSend.n
        => /\ IF socket = "open" THEN Wrote(lastSend'.id, lastSend'.msg)
              ELSE out' = out
           /\ UNCHANGED << socket, gameActive, onSessionEnd,
                           sessionEndCalls >> ]_vars

C19_Witness ==
  /\ lastSend.socket = "null"
  /\ lastSend.n = 2
  /\ Len(out) = 1

\* C20: the step that handles FINISH writes no frame, clears gameActive,
\* emits one session-end event carrying the level counter, and calls
\* _triggerSessionEnd: the callback, when still installed, runs and is
\* removed.
C20_FinishClosesSession ==
  [][ Handled("FINISH")
        => /\ out' = out
           /\ gameActive' = FALSE
           /\ emitted' = Append(emitted, [event |-> "session-end",
                                          levelsPlayed |-> levelCount])
           /\ onSessionEnd' = FALSE
           /\ sessionEndCalls' =
                sessionEndCalls + (IF onSessionEnd THEN 1 ELSE 0) ]_vars

C20_Witness ==
  /\ lastMsg.phase = "FINISH"
  /\ ~gameActive
  /\ emitted = << [event |-> "session-end", levelsPlayed |-> 1] >>
  /\ sessionEndCalls = 1
  /\ out = << [id |-> 1, msg |-> << "END_DONE" >>] >>

\* C21: the step that handles an INIT message with a well-formed payload
\* resolves the configuration for the level counter, writes exactly the
\* frame <id>#INIT_DONE#BOTH under the message's id and leaves the level
\* counter and the cached action as they are; the level counter is the
\* number of END messages handled by handleEnd so far (it starts at 0 and
\* only such a message changes it, by one).
C21_InitResolvesCurrentLevel ==
  [][ /\ (Handled("INIT") /\ lastMsg'.json)
            => /\ promptLevel' = levelCount
               /\ Wrote(lastMsg'.id, << "INIT_DONE", "BOTH" >>)
               /\ UNCHANGED << levelCount, pendingLLMAction >>
      /\ levelCount' = levelCount
                         + (IF Handled("END") /\ lastMsg'.json THEN 1 ELSE 0)
    ]_vars

C21_Witness ==
  /\ lastMsg = [id |-> 3, phase |-> "INIT", json |-> TRUE]
  /\ levelCount = 2
  /\ promptLevel = 2
  /\ out[3] = [id |-> 3, msg |-> << "INIT_DONE", "BOTH" >>]

\* C22: the step that handles the control token START writes exactly the
\* frame <id>#START_DONE under the message's id and changes nothing of the
\* session: level counter, cached action, in-flight flag, time of the last
\* call, connection state, resolved configuration, queued and outstanding
\* work all stay as they are.
C22_StartAcknowledgedOnly ==
  [][ Handled("START")
        => /\ Wrote(lastMsg'.id, << "START_DONE" >>)
           /\ UNCHANGED << levelCount, pendingLLMAction, llmCallInProgress,
                           lastLLMCallTime, socket, gameActive, onSessionEnd,
                           sessionEndCalls, closing, promptLevel, immediates,
                           inflight, emitted >> ]_vars

C22_Witness ==
  /\ lastMsg.phase = "START"
  /\ pendingLLMAction = "ACTION_UP"
  /\ lastLLMCallTime > 0
  /\ Len(out) = 2
  /\ out[2] = [id |-> 2, msg |-> << "START_DONE" >>]

\* C24 (as claimed): an exception thrown while a message is processed is
\* caught inside processMessage: the promise processMessage returned is
\* not rejected, and the step writes the fallback reply
\* <id>#ACTION_NIL#IMAGE under the message's id.
C24_FaultsCaughtAndAnswered ==
  [][ faults'.thrown # faults.thrown
        => /\ faults'.rejected = faults.rejected
           /\ Wrote(lastMsg'.id, << "ACTION_NIL", "IMAGE" >>) ]_vars

\* C28: whatever the backend answered, the cache holds nothing or a token
\* of the vocabulary, and every frame written under the id of an ACT message
\* carries a token of the vocabulary as its action.
C28_RepliesWithinVocabulary ==
  /\ pendingLLMAction \in SeqToSet(VALID_ACTIONS) \cup { Null }
  /\ \A k \in 1..Len(out) :
       out[k].id \in SeqToSet(acts)
         => out[k].msg[1] \in SeqToSet(VALID_ACTIONS)

C28_Witness ==
  /\ done.ok
  /\ done.action = "ACTION_NIL"
  /\ Len(out) = 3
  /\ out[2].msg = << "ACTION_LEFT", "IMAGE" >>
  /\ out[3].msg = << "ACTION_NIL", "IMAGE" >>

\* this step ran the deferred callback of an ACT message
ImmediateRan == Len(immediates') < Len(immediates)

\* this step launched an invocation (startAsyncLLMCall was called)
Launched == ImmediateRan /\ lastLLMCallTime' # lastLLMCallTime

\* C30 (as claimed): an invocation that finishes leaves the in-flight flag
\* false, and once an invocation has finished, the first ACT whose callback
\* runs at least 400 ms after that invocation's start launches a new
\* invocation.  (Stated for an ACT that arrived alone, after the callback
\* before it had run and read the clock, and whose own callback runs when
\* every invocation has finished.)
C30_FirstActAfterIntervalLaunches ==
  [][ /\ CallEnded => ~llmCallInProgress'
      /\ (/\ ImmediateRan
          /\ Len(immediates) = 1
          /\ ~draining
          /\ inflight = {}
          /\ \E k \in 1..Len(starts) :
               /\ now < starts[k].at + MinInterval
               /\ starts[k].at + MinInterval <= now')
           => Launched ]_vars

\* C30 (amended): an invocation that finishes, by success, by a backend
\* error or by a snapshot that does not parse, leaves the flag false; the
\* flag is true only while an invocation is unfinished; and a callback that
\* runs when every invocation has finished, at least 400 ms after the
\* recorded time of the last launch (0 after a level end), launches a new
\* invocation.
C30_FinishedCallNeverBlocks ==
  [][ /\ CallEnded => ~llmCallInProgress'
      /\ (Launched /\ inflight' = inflight) => ~llmCallInProgress'
      /\ llmCallInProgress' => inflight' # {}
      /\ (/\ ImmediateRan
          /\ inflight = {}
          /\ now' >= lastLLMCallTime + MinInterval)
           => Launched ]_vars

C30_Witness ==
  /\ done # NoCall
  /\ ~done.ok
  /\ Len(starts) = 2
  /\ starts[1].level = starts[2].level
  /\ llmCallInProgress
  /\ \E call \in inflight : call.id # done.id

\* C31: an END message whose payload JSON.parse rejects is answered
\* END_FAILED and changes no session state: the level counter, the cached
\* action, the in-flight flag and the time of the last invocation stay as
\* they were before the message.
C31_FailedEndChangesNothing ==
  [][ (Handled("END") /\ ~lastMsg'.json)
        => /\ Wrote(lastMsg'.id, << "END_FAILED" >>)
           /\ UNCHANGED << levelCount, pendingLLMAction, llmCallInProgress,
                           lastLLMCallTime, gameActive, onSessionEnd >>
    ]_vars

C31_Witness ==
  /\ lastMsg.phase = "END"
  /\ ~lastMsg.json
  /\ out # << >>
  /\ out[Len(out)] = [id |-> lastMsg.id, msg |-> << "END_FAILED" >>]
  /\ pendingLLMAction # Null
  /\ llmCallInProgress
  /\ lastLLMCallTime # 0

\* C32: once the session is closed (FINISH handled, or disconnect() called:
\* gameActive is false again), no step launches a decision invocation,
\* neither the deferred callback of an ACT that was answered before the
\* closure nor that of an ACT that arrives after FINISH.
C32_NoLaunchAfterClosure ==
  [][ inflight' \ inflight # {} => gameActive ]_vars

\* C33: disconnect() does not invoke the session-end callback and removes
\* it, and from then on (this.socket is null) no step invokes it or installs
\* it again, whatever 'close' event, deferred callback or finishing call
\* follows: the callback of a session that was disconnected on purpose never
\* runs.
C33_NoTeardownAfterDisconnect ==
  [][ (socket' = "null")
        => /\ sessionEndCalls' = sessionEndCalls
           /\ ~onSessionEnd'
           /\ socket = "null" => socket' = "null" ]_vars

C33_Witness ==
  /\ socket = "null"
  /\ ~closing
  /\ sessionEnding
  /\ sessionEndCalls = 0
  /\ ~onSessionEnd

(***************************************************************************)
(* Properties of the response parser.                                      *)
(***************************************************************************)

\* the vocabulary tokens that occur in a word when case is ignored
TokensIn(word) ==
  CASE word \in { "ACTION_UP", "ACTION_UPWARD" } -> { "ACTION_UP" }
    [] word = "action_left"                      -> { "ACTION_LEFT" }
    [] OTHER                                     -> {}

OccursIn(token, text) == \E i \in 1..Len(text) : token \in TokensIn(text[i])

\* the token the pattern ACTION: ACTION_<word> captures, or Null
Captured(text) ==
  IF \E i \in 1..(Len(text) - 1) :
       text[i] = "ACTION:" /\ TokensIn(text[i + 1]) # {}
    THEN LET i == CHOOSE i \in 1..(Len(text) - 1) :
                    /\ text[i] = "ACTION:" /\ TokensIn(text[i + 1]) # {}
                    /\ \A j \in 1..(i - 1) :
                         ~(text[j] = "ACTION:" /\ TokensIn(text[j + 1]) # {})
         IN IF text[i + 1] = "action_left" THEN "ACTION_LEFT" ELSE text[i + 1]
  ELSE Null

\* C16: parseAction returns the first legal action, in the order supplied,
\* that occurs in the text when case is ignored; when none occurs, the token
\* captured by the pattern if it is a legal action; and ACTION_NIL otherwise,
\* and for an empty text.
C16_ParseActionContract ==
  parserResult # Null
    => LET occurring == { k \in 1..Len(parserActions) :
                            OccursIn(parserActions[k], parserText) }
       IN parserResult =
            IF parserText = << >> THEN "ACTION_NIL"
            ELSE IF occurring # {}
              THEN parserActions[CHOOSE k \in occurring :
                                      \A j \in occurring : k <= j]
            ELSE IF Captured(parserText) \in SeqToSet(parserActions)
              THEN Captured(parserText)
            ELSE "ACTION_NIL"

C16_Witness ==
  /\ parserText = << "ACTION_UP", "action_left" >>
  /\ parserActions = << "ACTION_LEFT", "ACTION_UP" >>
  /\ parserResult = "ACTION_LEFT"

(***************************************************************************)
(* Properties of the phase detection.                                      *)
(***************************************************************************)

\* the phases whose marker ends within the first n characters of the text
MarkersEndingBy(text, n) ==
  { text[i].marker :
      i \in { j \in 1..Len(text) :
                /\ text[j].marker # ""
                /\ lengthOf(SubSeq(text, 1, j)) <= n } }

\* ACT before INIT before END
Preferred(phases) ==
  IF "ACT" \in phases THEN "ACT"
  ELSE IF "INIT" \in phases THEN "INIT"
  ELSE IF "END" \in phases THEN "END"
  ELSE "NONE"

\* C27: the phase is decided by the markers that lie wholly within the
\* first 2000 characters of the payload when there is one, and by the
\* markers anywhere in the payload otherwise; among the markers so found ACT
\* is preferred to INIT and INIT to END.  A payload whose only marker lies
\* beyond (or across) the 2000th character is classified by that marker.
C27_PhaseFromHeadThenFull ==
  classified.phase # Unapplied
    => LET text == classified.jsonPayload
           inHead == MarkersEndingBy(text, HeadLength)
           anywhere == MarkersEndingBy(text, lengthOf(text))
       IN /\ classified.phase =
               Preferred(IF inHead # {} THEN inHead ELSE anywhere)
          /\ (inHead = {} /\ Cardinality(anywhere) = 1)
               => classified.phase \in anywhere

C27_Witness ==
  /\ classified.jsonPayload =
       << Marker("INIT"), OtherText(HeadLength - 10), Marker("ACT") >>
  /\ classified.phase = "INIT"

(***************************************************************************)
(* Properties of the decision invocation.                                  *)
(***************************************************************************)

\* C23 (as claimed): a call whose fetch ended in a failure (the fetch
\* rejected, the status was not ok, the body was malformed) has emitted an
\* 'llm-error' event and no 'llm-reasoning' event.
C23_FailureEmitsError ==
  invocation.outcome \in Failures
    => /\ "llm-error" \in SeqToSet(invocation.emitted)
       /\ "llm-reasoning" \notin SeqToSet(invocation.emitted)

\* C25 (as claimed): the request of a call is decided by the shape of the
\* model identifier alone: an identifier containing '/' goes to the cloud
\* endpoint with a bearer Authorization header, an identifier without '/'
\* goes to the local endpoint without an Authorization header.
C25_RoutingByIdentifierShape ==
  (invocation.stage # "idle" /\ parses(invocation.jsonPayload))
    => IF "/" \in SeqToSet(invocation.model)
         THEN /\ invocation.request.apiUrl = "config.openrouter.apiUrl"
              /\ invocation.request.Authorization # Null
         ELSE /\ invocation.request.apiUrl = "config.ollama.apiUrl"
              /\ invocation.request.Authorization = Null

\* C29 (as claimed): the action a call commits to the cache is one of the
\* legal commands of the snapshot the call was started for, or ACTION_NIL.
C29_CommittedActionLegal ==
  (invocation.stage = "returned" /\ invocation.outcome = "ok")
    => invocation.pendingLLMAction
         \in SeqToSet(actionsOf(invocation.jsonPayload)) \cup { "ACTION_NIL" }

(***************************************************************************)
(* Properties of the prompt composer.                                      *)
(***************************************************************************)
RecognizedNames ==
  { "gameName", "gameScore", "avatarHealthPoints", "gameTick",
    "availableActions", "avatarPosition" }

RECURSIVE Substituted(_, _)
\* the template with every recognized placeholder replaced by its value and
\* everything else as it stands
Substituted(tokens, tvars) ==
  IF tokens = << >> THEN ""
  ELSE LET piece == Head(tokens)
       IN (IF piece.ph /\ piece.s \in RecognizedNames THEN tvars[piece.s]
           ELSE IF piece.ph THEN "{{" \o piece.s \o "}}"
           ELSE piece.s) \o Substituted(Tail(tokens), tvars)

\* C17 (as claimed): in the resolved layer every placeholder with one of the
\* six recognized names is replaced by the snapshot's value, and every other
\* placeholder stands verbatim.
C17_OtherPlaceholdersVerbatim ==
  resolved \notin { Unapplied, Null }
    => resolved = Substituted(templateContent.tokens,
                              templateVars(sso, extraVars))

\* a layer that takes part in the user message, followed by the blank line
LayerThenBlankLine(text) ==
  IF text = Null \/ text = "" THEN "" ELSE text \o "\n\n"

\* C18: the user message is the game-context layer, the level-context
\* layer and the per-tick state block, in this order, separated by one blank
\* line; a layer that is absent (or empty) contributes nothing, no separator
\* either; the state block is always there, at the end.
C18_UserMessageLayout ==
  prompt.userMessage # Unapplied
    => LET extra == [gameName |-> promptConfig.gameName]
       IN prompt.userMessage =
            LayerThenBlankLine(resolveTemplate(promptConfig.gameContent, sso, extra))
              \o LayerThenBlankLine(resolveTemplate(promptConfig.levelContent, sso, extra))
              \o tickState(sso)

C18_Witness ==
  /\ promptConfig.gameContent = NoLayer
  /\ promptConfig.levelContent =
       [absent |-> FALSE, tokens |-> << [ph |-> TRUE, s |-> "gameScore"] >>]
  /\ sso = [gameTick |-> 0]
  /\ prompt.userMessage = "0\n\n" \o tickState(sso)

\* the snapshot carries the four fields of the state block
CarriesState(snapshot) ==
  { "gameScore", "avatarHealthPoints", "gameTick", "availableActions" }
    \subseteq DOMAIN snapshot

\* the state block written with the snapshot's own values
StateBlockOf(snapshot) ==
  "Current State - Score: " \o ToString(snapshot.gameScore)
    \o " | Health: " \o ToString(snapshot.avatarHealthPoints)
    \o " | Tick: " \o ToString(snapshot.gameTick)
    \o "\nAvailable actions: " \o joinText(snapshot.availableActions, ", ")
    \o "\n\nChoose ONE action. Respond with ONLY the action name (e.g., ACTION_UP)."

\* C26 (as claimed): for a snapshot that carries gameScore,
\* avatarHealthPoints, gameTick and availableActions, the state block at the
\* end of the user message shows these very values, a value of 0 included.
C26_StateBlockShowsSnapshot ==
  (prompt.userMessage # Unapplied /\ CarriesState(sso))
    => LET extra == [gameName |-> promptConfig.gameName]
       IN prompt.userMessage =
            LayerThenBlankLine(resolveTemplate(promptConfig.gameContent, sso, extra))
              \o LayerThenBlankLine(resolveTemplate(promptConfig.levelContent, sso, extra))
              \o StateBlockOf(sso)

(***************************************************************************)
(* Properties of the channel.                                              *)
(***************************************************************************)
Spaces(n) == [i \in 1..n |-> " "]

\* C10 (as claimed): a dispatched message with a correlation id has the text
\* before the first '#' of its frame as msgId and the rest of the frame,
\* unchanged, as payload.
C10_PayloadExact ==
  \A k \in 1..Len(dispatched) :
    LET d == dispatched[k]
    IN d.msgId # << >>
         => /\ d.line \in 1..Len(lines)
            /\ "#" \notin SeqToSet(d.msgId)
            /\ lines[d.line] = d.msgId \o << "#" >> \o d.jsonPayload

\* C10 (amended): the frame is split at its first '#' only after the
\* whitespace at its two ends was removed: msgId is the text before the first
\* '#' without leading whitespace, the payload is the text after it, with
\* every further '#', without trailing whitespace, and is not empty.
C10_PayloadExactAfterTrim ==
  \A k \in 1..Len(dispatched) :
    LET d == dispatched[k]
        message == d.msgId \o << "#" >> \o d.jsonPayload
    IN /\ d.line \in 1..Len(lines)
       /\ "#" \notin SeqToSet(d.msgId)
       /\ d.jsonPayload # << >>
       /\ message[1] # " "
       /\ message[Len(message)] # " "
       /\ \E lead, trail \in 0..Len(lines[d.line]) :
            lines[d.line] = Spaces(lead) \o message \o Spaces(trail)

C10_Witness ==
  \E k \in 1..Len(dispatched) :
    /\ "#" \in SeqToSet(dispatched[k].jsonPayload)
    /\ lines[dispatched[k].line] # dispatched[k].msgId \o << "#" >> \o dispatched[k].jsonPayload

\* what handleData hands on when the whole stream arrives as one chunk
OneChunk(bytes) ==
  LET messages == split(toString(bytes), NL)
  IN handedOn(dispatchFrom(SubSeq(messages, 1, Len(messages) - 1), 1))

\* C11 (as claimed): however the byte stream is cut into chunks, the frame
\* whose newline has not arrived is held back, every completed frame is
\* handed on once, and the messages handed on are those of the stream
\* arriving in one piece.
C11_ChunkingInvisible ==
  /\ NL \notin SeqToSet(buffer)
  /\ Len(delivered) <= Cardinality(NewlinesOf(stream))
  /\ delivered = OneChunk(stream)

====
